---- MODULE Spec2Model ----
(***************************************************************************)
(* Battery-swap station network simulation (backend/app/simulation).       *)
(*                                                                         *)
(* The program is a SimPy discrete-event simulation.  The model keeps the  *)
(* SimPy environment explicit: the event heap ordered by (time, priority,  *)
(* insertion order), the stores' item lists and parked getters, the        *)
(* charger resource, and one program counter per generator process.  One   *)
(* action of the model is one step of the environment: the head event is   *)
(* popped, the clock is set to its time and its callbacks run, i.e. the    *)
(* waiting process is resumed up to its next yield.                        *)
(*                                                                         *)
(* Times are seconds, SoC is percent, energy is watt-hours (kWh * 1000).   *)
(***************************************************************************)
EXTENDS Integers, Sequences, FiniteSets, TLC

(***************************************************************************)
(* Bounds of the model.                                                    *)
(***************************************************************************)
MaxBatteries == 6
MaxChargers == 2
MaxArrivals == 3

(***************************************************************************)
(* Program constants.                                                      *)
(***************************************************************************)
capacity_kwh == 5
charge_power_kw == 60
min_swap_soc == 95
swap_time_seconds == 90
default_cooldown_seconds == 60
default_mean_arrival_min == 10
default_arrivals_per_hour == 10
deplete_target_soc == 20
full_soc == 100
fast_phase_limit_soc == 80
seconds_per_hour == 3600
hours_per_day == 24
energy_rate_per_kwh == 8
battery_cost_inr == 250000
degradation_per_cycle_ppm == 100
fixed_cost_per_station_day == 500

\* Variant: the horizon is one swap time longer.
HorizonLate(cfg) == cfg.duration_days * hours_per_day * seconds_per_hour + swap_time_seconds

\* duration_seconds of SimulationOrchestrator.run.
Horizon(cfg) == cfg.duration_days * hours_per_day * seconds_per_hour

\* Variant: the running value is kept whatever the new one is.
MaxKeepsFirst(a, b) == a

Max(a, b) == IF a >= b THEN a ELSE b
Min(a, b) == IF a <= b THEN a ELSE b

(***************************************************************************)
(* Processes of the environment.                                           *)
(***************************************************************************)
ChgProc == <<"chg", 0>>
GenProc == <<"gen", 0>>
NoProc == <<"none", 0>>
VehProc(i) == <<"veh", i>>

VARIABLES
    config,                 \* SimulationConfig / StationConfig of the run
    random_seed,            \* config.random_seed, as the stream it generates
    phase,                  \* "constructed", "running", "finished"
    now,                    \* env.now
    queue,                  \* env._queue (heap, in pop order) and env._eid
    batteries,              \* Battery objects by index: soc, status, cycle_count
    battery_pool,           \* Station.battery_pool.items
    pool_get_queue,         \* Station.battery_pool.get_queue (parked vehicles)
    charge_queue,           \* Station.charge_queue.items
    chargers_users,         \* len(Station.chargers.users)
    active_chargers,        \* Station.active_chargers
    current_queue_length,   \* Station.current_queue_length
    stats,                  \* Station.stats
    events,                 \* SimulationOrchestrator.events
    chg,                    \* the _charging_loop process: pc and locals
    gen_pc,                 \* the _vehicle_arrival_generator process
    vehicles,               \* the handle_vehicle_arrival processes, by creation
    np_rng,                 \* SimulationOrchestrator._np_rng: the draws to come
    uuids_seen,             \* number of distinct uuid4 values produced so far
    run_no,                 \* which run of the same (config, seed) this is
    prev_run,               \* events and stats of the previous run, if any
    scenario,               \* config.scenario.interventions (<<>>: no scenario)
    base_stations,          \* config.stations, as submitted
    station_rate,           \* local station_rate of the arrival generator
    call                    \* a call of a function taken on its own: its
                            \* arguments, locals and, once returned, result

vars == <<config, random_seed, phase, now, queue, batteries, battery_pool, pool_get_queue,
          charge_queue, chargers_users, active_chargers, current_queue_length,
          stats, events, chg, gen_pc, vehicles, np_rng, uuids_seen, run_no,
          prev_run, scenario, base_stations, call, station_rate>>

(***************************************************************************)
(* Battery (assets.py).                                                    *)
(***************************************************************************)
\* Variant: every battery passes for swappable.
IsSwappableAny(b) == TRUE

IsSwappable(b) == b.soc >= min_swap_soc /\ b.status = "AVAILABLE"

Deplete(b, target_soc) ==
    [b EXCEPT !.soc = Max(0, target_soc),
              !.status = "DEPLETED",
              !.cycle_count = @ + 1]

SetCharging(b) == [b EXCEPT !.status = "CHARGING"]

\* Variant: the charge is added to the SoC, with no cap.
CompleteChargeAdds(b, final_soc) ==
    [b EXCEPT !.soc = @ + final_soc, !.status = "AVAILABLE"]

\* Variant: the battery is released without its charge.
CompleteChargeKeepsSoc(b, final_soc) == [b EXCEPT !.status = "AVAILABLE"]

\* Variant: the battery is charged but keeps its CHARGING status.
CompleteChargeKeepsStatus(b, final_soc) ==
    [b EXCEPT !.soc = Min(full_soc, final_soc)]

CompleteCharge(b, final_soc) ==
    [b EXCEPT !.soc = Min(full_soc, final_soc), !.status = "AVAILABLE"]

(***************************************************************************)
(* Station._initialize_batteries: battery i of n.  int(n * 0.8) is the     *)
(* floor of 8n/10.                                                         *)
(***************************************************************************)
ChargedCount(n) == (n * 8) \div 10

InitialSoc(i, n) == IF i < ChargedCount(n) THEN 100 ELSE 50 + (i % 5) * 10

InitialStatus(i, n) ==
    IF i < ChargedCount(n) THEN "AVAILABLE"
    ELSE IF InitialSoc(i, n) < 95 THEN "CHARGING" ELSE "AVAILABLE"

InitialBattery(i, n) ==
    [soc |-> InitialSoc(i, n), status |-> InitialStatus(i, n), cycle_count |-> 0]

InitialBatteries(n) == [i \in 0..(n - 1) |-> InitialBattery(i, n)]

\* The indices below n, in order, of the batteries put in the pool (inPool)
\* or on the charge queue.
RECURSIVE SelectIds(_, _, _)
SelectIds(bs, n, inPool) ==
    IF n <= 0 THEN <<>>
    ELSE LET rest == SelectIds(bs, n - 1, inPool)
         IN IF IsSwappable(bs[n - 1]) = inPool THEN Append(rest, n - 1) ELSE rest

InitialPool(n) == SelectIds(InitialBatteries(n), n, TRUE)
InitialChargeQueue(n) == SelectIds(InitialBatteries(n), n, FALSE)

(***************************************************************************)
(* simpy.Environment: the event heap and the counter _eid.  An entry is    *)
(* keyed by (time, priority, eid), urgent before normal; the heap is kept  *)
(* as the sequence in pop order.                                           *)
(***************************************************************************)
Ev(t, urgent, kind, proc, store) ==
    [time |-> t, urgent |-> urgent, kind |-> kind, proc |-> proc, store |-> store]

\* Variant: among entries of one time and priority the newest goes first.
PrecedesNewestFirst(e, f) ==
    \/ e.time < f.time
    \/ e.time = f.time /\ e.urgent /\ ~f.urgent
    \/ e.time = f.time /\ e.urgent = f.urgent /\ e.eid > f.eid

Precedes(e, f) ==
    \/ e.time < f.time
    \/ e.time = f.time /\ e.urgent /\ ~f.urgent
    \/ e.time = f.time /\ e.urgent = f.urgent /\ e.eid < f.eid

\* Environment.schedule: heappush of (time, priority, next(eid), event).
Schedule(q, ev) ==
    LET e == [time |-> ev.time, urgent |-> ev.urgent, eid |-> q.eid,
              kind |-> ev.kind, proc |-> ev.proc, store |-> ev.store]
        later == {i \in 1..Len(q.heap) : Precedes(e, q.heap[i])}
        k == IF later = {} THEN Len(q.heap) + 1
             ELSE CHOOSE i \in later : \A j \in later : i <= j
    IN [heap |-> SubSeq(q.heap, 1, k - 1) \o <<e>> \o SubSeq(q.heap, k, Len(q.heap)),
        eid |-> q.eid + 1]

\* heappop: the heap without its first entry.
Pop(q) == [q EXCEPT !.heap = Tail(@)]

EmptyQueue == [heap |-> <<>>, eid |-> 0]

\* The put events Station._initialize_batteries leaves on the heap.
RECURSIVE InitialPuts(_, _)
InitialPuts(bs, n) ==
    IF n <= 0 THEN EmptyQueue
    ELSE Schedule(InitialPuts(bs, n - 1),
                  Ev(0, FALSE, "put", NoProc,
                     IF IsSwappable(bs[n - 1]) THEN "pool" ELSE "charge_queue"))

(***************************************************************************)
(* Telemetry (SimulationOrchestrator.log_event).  proc is not part of the  *)
(* logged dictionary: it names the process that emitted the event.         *)
(***************************************************************************)
LogEvent(log, t, event_type, entity_id, proc, meta) ==
    Append(log, [time |-> t, entity_id |-> entity_id, event_type |-> event_type,
                 proc |-> proc, meta |-> meta])

VehicleEntity(u) == <<"vehicle", u>>
BatteryEntity(i) == <<"batt", i>>
StationEntity == <<"station", 0>>

(***************************************************************************)
(* Configurations and seeds.                                               *)
(***************************************************************************)
ZeroCurve == [h \in 0..(hours_per_day - 1) |-> 0]
FlatCurve == [h \in 0..(hours_per_day - 1) |-> default_arrivals_per_hour]

AllConfigs ==
    [total_batteries : 1..MaxBatteries,
     charger_count : 1..MaxChargers,
     cooldown_seconds : {0, default_cooldown_seconds},
     duration_days : {1},
     demand_curve : {ZeroCurve, FlatCurve},
     demand_multiplier : {<<1, 1>>},
     mean_arrival_time_min : {0, default_mean_arrival_min},
     grid_power_limit_kw : {<<>>}]

\* With a mean from the real network the demand curve is not read: those
\* configurations are taken with the all-zero curve only.
Configs ==
    {cfg \in AllConfigs :
        cfg.mean_arrival_time_min > 0 => cfg.demand_curve = ZeroCurve}

\* Inter-arrival draws considered: a simultaneous arrival, one in the middle
\* of a swap, one after swap, cooldown and charge are over, and one that
\* leaves two swap times before the horizon (the swap completes before the
\* horizon, the charge that follows does not; two half swaps later a swap
\* would complete exactly at the horizon).
HalfSwap == swap_time_seconds \div 2
LongGap == 10 * default_cooldown_seconds
LateGap(cfg) == Horizon(cfg) - 2 * swap_time_seconds
Intervals(cfg) == {0, HalfSwap, LongGap, LateGap(cfg)}

RECURSIVE SeqsOfLen(_, _)
SeqsOfLen(S, n) ==
    IF n = 0 THEN {<<>>}
    ELSE {Append(s, x) : s \in SeqsOfLen(S, n - 1), x \in S}

\* The configuration has demand in no hour: the generator never draws.
NoDemand(cfg) ==
    /\ cfg.mean_arrival_time_min = 0
    /\ \A h \in DOMAIN cfg.demand_curve : cfg.demand_curve[h] = 0

\* A seed is identified with the stream of draws it generates; draws past
\* MaxArrivals fall beyond the horizon.  Where no draw is ever made one
\* seed stands for all.  The draws do not depend on where the rate comes
\* from: every stream is taken with the real-network mean, and with the
\* rate of the demand curve the streams that differ in their first draw.
Seeds(cfg) ==
    IF NoDemand(cfg) THEN {[k \in 1..MaxArrivals |-> LongGap]}
    ELSE IF cfg.mean_arrival_time_min > 0
    THEN SeqsOfLen(Intervals(cfg), MaxArrivals)
    ELSE {seed \in SeqsOfLen(Intervals(cfg), MaxArrivals) :
             \A k \in 2..MaxArrivals : seed[k] = LongGap}

\* _np_rng.exponential(mean_interval), times the jitter: the draw of the
\* stream is the interval at demand_multiplier 1, and mean_interval is
\* inversely proportional to the multiplier.  The streams considered with a
\* multiplier other than 1 are those whose intervals are whole seconds.
NextDraw(rng, cfg) ==
    IF rng = <<>> THEN Horizon(cfg) + 1
    ELSE (Head(rng) * cfg.demand_multiplier[2]) \div cfg.demand_multiplier[1]
AfterDraw(rng) == IF rng = <<>> THEN rng ELSE Tail(rng)

ZeroStats ==
    [total_swaps |-> 0, lost_swaps |-> 0, total_wait_time |-> 0,
     max_wait_time |-> 0, total_charge_time |-> 0, total_energy_wh |-> 0,
     peak_queue_length |-> 0, charger_busy_time |-> 0]

(***************************************************************************)
(* The state after SimulationOrchestrator.__init__ (Station.__init__ has   *)
(* filled the stores and created the charging process).                    *)
(***************************************************************************)
StationInit(cfg) ==
    [batteries |-> InitialBatteries(cfg.total_batteries),
     battery_pool |-> InitialPool(cfg.total_batteries),
     charge_queue |-> InitialChargeQueue(cfg.total_batteries),
     queue |-> Schedule(InitialPuts(InitialBatteries(cfg.total_batteries),
                                    cfg.total_batteries),
                        Ev(0, TRUE, "init", ChgProc, "none")),
     chg |-> [pc |-> "created", battery |-> <<>>, charge_start |-> 0]]

\* config.stations: the station's inventory and chargers as submitted.
BaseStations(cfg) ==
    [id |-> StationEntity[2], total_batteries |-> cfg.total_batteries,
     charger_count |-> cfg.charger_count]

\* The generator has not computed a rate yet.
NoRate == <<0, 1>>

\* No function is being taken on its own.
NoCall == [fn |-> "none"]

Constructed(cfg, seed) ==
    /\ config = cfg
    /\ random_seed = seed
    /\ np_rng = seed
    /\ phase = "constructed"
    /\ now = 0
    /\ batteries = StationInit(cfg).batteries
    /\ battery_pool = StationInit(cfg).battery_pool
    /\ pool_get_queue = <<>>
    /\ charge_queue = StationInit(cfg).charge_queue
    /\ chargers_users = 0
    /\ active_chargers = 0
    /\ current_queue_length = 0
    /\ stats = ZeroStats
    /\ events = <<>>
    /\ chg = StationInit(cfg).chg
    /\ gen_pc = "none"
    /\ station_rate = NoRate
    /\ vehicles = <<>>
    /\ queue = StationInit(cfg).queue
    /\ scenario = <<>>
    /\ base_stations = BaseStations(cfg)
    /\ call = NoCall

\* No run precedes the first one.
NoRun == [events |-> <<>>, stats |-> ZeroStats]

Init ==
    /\ \E cfg \in Configs : \E seed \in Seeds(cfg) : Constructed(cfg, seed)
    /\ uuids_seen = 0
    /\ run_no = 1
    /\ prev_run = NoRun

(***************************************************************************)
(* SimulationOrchestrator.run: start the arrival generator and schedule    *)
(* the stop event of env.run(until=duration_seconds), which simpy puts     *)
(* before every regular event of the same time.                            *)
(***************************************************************************)
Run ==
    /\ phase = "constructed"
    /\ phase' = "running"
    /\ queue' = Schedule(Schedule(queue, Ev(now, TRUE, "init", GenProc, "none")),
                         Ev(now + Horizon(config), TRUE, "until", NoProc, "none"))
    /\ UNCHANGED <<config, random_seed, scenario, base_stations, call, station_rate,
                   now, batteries, battery_pool, pool_get_queue,
                   charge_queue, chargers_users, active_chargers,
                   current_queue_length, stats, events, chg, gen_pc, vehicles,
                   np_rng, uuids_seen, run_no, prev_run>>

\* The head of the heap, popped by Environment.step.
Stepping == phase = "running" /\ queue.heap # <<>>
head == Head(queue.heap)

Stop ==
    /\ Stepping
    /\ head.kind = "until"
    /\ now' = head.time
    /\ queue' = Pop(queue)
    /\ phase' = "finished"
    /\ UNCHANGED <<config, random_seed, scenario, base_stations, call, station_rate,
                   batteries, battery_pool, pool_get_queue,
                   charge_queue, chargers_users, active_chargers,
                   current_queue_length, stats, events, chg, gen_pc, vehicles,
                   np_rng, uuids_seen, run_no, prev_run>>

(***************************************************************************)
(* simpy stores and the charger resource.  A put appends the item at once  *)
(* and schedules its event; parked getters are served by _trigger_get, a   *)
(* callback of the put event, i.e. when that event is processed.  A get    *)
(* joins the get queue and runs _trigger_get itself.                       *)
(***************************************************************************)
\* Variant: the put drops the item.
StorePutDrops(items, b) == items

StorePut(items, b) == Append(items, b)

RemoveAt(items, k) == SubSeq(items, 1, k - 1) \o SubSeq(items, k + 1, Len(items))

\* FilterStore._do_get with the filter lambda b: b.is_swappable: the
\* position of the first swappable item, 0 if there is none.
FirstSwappable(items, bats) ==
    LET match == {k \in 1..Len(items) : IsSwappable(bats[items[k]])}
    IN IF match = {} THEN 0 ELSE CHOOSE k \in match : \A j \in match : k <= j

\* Variant: every battery of the station counts, not only the pool's.
AvailableCountAll(items, bats) ==
    Cardinality({k \in 1..Len(items) : IsSwappable(bats[items[k]])})
    + Cardinality(DOMAIN bats)

\* Variant: the stockout check always finds a battery.
AvailableCountNeverZero(items, bats) == 1

\* Station.get_available_battery_count, and the stockout check.
AvailableCount(items, bats) ==
    Cardinality({k \in 1..Len(items) : IsSwappable(bats[items[k]])})

\* BaseResource._trigger_get of the battery pool: every getter of the get
\* queue is tried in order; one that finds a swappable item takes it and
\* its get event is scheduled, the others stay parked.
RECURSIVE TriggerGetPool(_, _, _, _, _, _, _)
TriggerGetPool(q, items, getters, parked, vs, bats, t) ==
    IF getters = <<>>
    THEN [queue |-> q, items |-> items, get_queue |-> parked, vehicles |-> vs]
    ELSE LET i == Head(getters)
             k == FirstSwappable(items, bats)
         IN IF k = 0
            THEN TriggerGetPool(q, items, Tail(getters), Append(parked, i),
                                vs, bats, t)
            ELSE TriggerGetPool(
                     Schedule(q, Ev(t, FALSE, "get", VehProc(i), "pool")),
                     RemoveAt(items, k), Tail(getters), parked,
                     [vs EXCEPT ![i].pc = "getting", ![i].battery = <<items[k]>>],
                     bats, t)

\* Variant: the get pops the newest item.
TriggerGetChargeQueueNewest(q, items, c, t) ==
    IF c.pc = "waiting" /\ items # <<>>
    THEN [queue |-> Schedule(q, Ev(t, FALSE, "get", ChgProc, "charge_queue")),
          items |-> SubSeq(items, 1, Len(items) - 1),
          chg |-> [c EXCEPT !.pc = "getting", !.battery = <<items[Len(items)]>>]]
    ELSE [queue |-> q, items |-> items, chg |-> c]

\* BaseResource._trigger_get of the charge queue, whose only getter is the
\* charging loop (parked when its pc is "waiting"): Store._do_get pops the
\* oldest item.
TriggerGetChargeQueue(q, items, c, t) ==
    IF c.pc = "waiting" /\ items # <<>>
    THEN [queue |-> Schedule(q, Ev(t, FALSE, "get", ChgProc, "charge_queue")),
          items |-> Tail(items),
          chg |-> [c EXCEPT !.pc = "getting", !.battery = <<Head(items)>>]]
    ELSE [queue |-> q, items |-> items, chg |-> c]

\* Resource._do_put for the request of the charging loop (parked when its pc
\* is "wait_charger"): granted while fewer than capacity users hold a bay.
TriggerPutChargers(q, users, c, capacity, t) ==
    IF c.pc = "wait_charger" /\ users < capacity
    THEN [queue |-> Schedule(q, Ev(t, FALSE, "request", ChgProc, "chargers")),
          users |-> users + 1,
          chg |-> [c EXCEPT !.pc = "requesting"]]
    ELSE [queue |-> q, users |-> users, chg |-> c]

(***************************************************************************)
(* Station._calculate_charge_time and _calculate_energy_used, in integer   *)
(* seconds and watt-hours (exact for the SoC values and durations that     *)
(* arise: multiples of 10 percent and of 30 seconds).                      *)
(***************************************************************************)
\* Variant: rated power up to full charge, no tapered phase.
CalculateChargeTimeLinear(soc) ==
    ((full_soc - soc) * capacity_kwh * seconds_per_hour) \div (100 * charge_power_kw)

CalculateChargeTime(soc) ==
    LET fast_time == IF soc < fast_phase_limit_soc
                     THEN ((Min(fast_phase_limit_soc, full_soc) - soc) * capacity_kwh
                           * seconds_per_hour) \div (100 * charge_power_kw)
                     ELSE 0
        slow_phase_soc == Max(0, full_soc - Max(soc, fast_phase_limit_soc))
        slow_time == IF slow_phase_soc > 0
                     THEN (slow_phase_soc * capacity_kwh * seconds_per_hour * 2)
                          \div (100 * charge_power_kw)
                     ELSE 0
    IN fast_time + slow_time

\* Variant: the rated power over the whole duration, no tapering factor.
CalculateEnergyUsedRated(duration) ==
    (charge_power_kw * 1000 * duration) \div seconds_per_hour

\* _calculate_energy_used, in Wh: charge_power_kw * 0.75 * duration / 3600.
CalculateEnergyUsed(duration) ==
    (charge_power_kw * 750 * duration) \div seconds_per_hour

(***************************************************************************)
(* Arrival rate of the generator, as a fraction <<numerator, denominator>> *)
(* of arrivals per hour.                                                   *)
(***************************************************************************)
CurrentHour(t) == (t \div seconds_per_hour) % hours_per_day

GetRate(curve, hour) == curve[hour % hours_per_day]

\* scenario.demand_adjustments when there is no scenario or none were
\* given: the empty dict.  An adjustment, like demand_multiplier, is a
\* fraction <<numerator, denominator>>.
NoAdjustments == [h \in {} |-> <<1, 1>>]

\* Variant: the rate is split over the stations whatever its source.
StationRateOfSplit(mean, curve, multiplier, adjustments, hour, nstations) ==
    LET real == mean > 0
        base_rate == IF real THEN <<60, mean>> ELSE <<GetRate(curve, hour), 1>>
        rate == <<base_rate[1] * multiplier[1], base_rate[2] * multiplier[2]>>
        adjusted == IF hour \in DOMAIN adjustments
                    THEN <<rate[1] * adjustments[hour][1],
                           rate[2] * adjustments[hour][2]>>
                    ELSE rate
    IN IF nstations = 0 THEN adjusted
       ELSE <<adjusted[1], adjusted[2] * nstations>>

\* station_rate of one pass of the generator's loop, from the mean of the
\* real network (0 when it is not positive), the demand curve,
\* demand_multiplier, the scenario's demand_adjustments, the current hour
\* and len(self.stations).
StationRateOf(mean, curve, multiplier, adjustments, hour, nstations) ==
    LET real == mean > 0
        base_rate == IF real THEN <<60, mean>> ELSE <<GetRate(curve, hour), 1>>
        rate == <<base_rate[1] * multiplier[1], base_rate[2] * multiplier[2]>>
        adjusted == IF hour \in DOMAIN adjustments
                    THEN <<rate[1] * adjustments[hour][1],
                           rate[2] * adjustments[hour][2]>>
                    ELSE rate
    IN IF real \/ nstations = 0 THEN adjusted
       ELSE <<adjusted[1], adjusted[2] * nstations>>

\* The runs modelled carry no demand_adjustments.
StationRate(cfg, hour, nstations) ==
    StationRateOf(cfg.mean_arrival_time_min, cfg.demand_curve,
                  cfg.demand_multiplier, NoAdjustments, hour, nstations)

RatePositive(r) == r[1] > 0

\* len(self.stations): the model runs one station.
NumStations == Cardinality({StationEntity})

(***************************************************************************)
(* _vehicle_arrival_generator.  The loop head computes the rate of the     *)
(* current hour; with no demand it sleeps an hour, otherwise it draws the  *)
(* next inter-arrival time (exponential draw and jitter, both from         *)
(* _np_rng) and sleeps that long.                                          *)
(***************************************************************************)
GeneratorLoop(q, t) ==
    /\ station_rate' = StationRate(config, CurrentHour(t), NumStations)
    /\ IF ~RatePositive(StationRate(config, CurrentHour(t), NumStations))
       THEN /\ queue' = Schedule(q, Ev(t + seconds_per_hour, FALSE, "timeout",
                                       GenProc, "none"))
            /\ gen_pc' = "sleep"
            /\ np_rng' = np_rng
       ELSE /\ queue' = Schedule(q, Ev(t + NextDraw(np_rng, config), FALSE,
                                       "timeout", GenProc, "none"))
            /\ gen_pc' = "interval"
            /\ np_rng' = AfterDraw(np_rng)

GeneratorStart ==
    /\ Stepping
    /\ head.kind = "init" /\ head.proc = GenProc
    /\ now' = head.time
    /\ GeneratorLoop(Pop(queue), head.time)
    /\ UNCHANGED <<config, random_seed, scenario, base_stations, call,
                   phase, batteries, battery_pool, pool_get_queue,
                   charge_queue, chargers_users, active_chargers,
                   current_queue_length, stats, events, chg, vehicles,
                   uuids_seen, run_no, prev_run>>

GeneratorSleepOver ==
    /\ Stepping
    /\ head.kind = "timeout" /\ head.proc = GenProc /\ gen_pc = "sleep"
    /\ now' = head.time
    /\ GeneratorLoop(Pop(queue), head.time)
    /\ UNCHANGED <<config, random_seed, scenario, base_stations, call,
                   phase, batteries, battery_pool, pool_get_queue,
                   charge_queue, chargers_users, active_chargers,
                   current_queue_length, stats, events, chg, vehicles,
                   uuids_seen, run_no, prev_run>>

\* create_vehicle: the id is uuid4().hex[:8], a value the seed does not
\* determine.  Values are named in order of first appearance.  Within a run
\* the ids are taken to be distinct; against an earlier run an id is one of
\* that run's or a new one.
VehicleIds(log) ==
    {log[k].entity_id[2] : k \in {j \in 1..Len(log) : log[j].entity_id[1] = "vehicle"}}

Uuid4Values == {uuids_seen + 1} \cup VehicleIds(prev_run.events)

NewVehicle(u, t) ==
    [pc |-> "created", vehicle_id |-> u, arrival_time |-> t, battery |-> <<>>,
     wait_time |-> 0]

GeneratorArrival ==
    /\ Stepping
    /\ head.kind = "timeout" /\ head.proc = GenProc /\ gen_pc = "interval"
    /\ now' = head.time
    /\ \E u \in Uuid4Values \ VehicleIds(events) :
         /\ vehicles' = Append(vehicles, NewVehicle(u, head.time))
         /\ uuids_seen' = Max(uuids_seen, u)
    /\ GeneratorLoop(Schedule(Pop(queue),
                              Ev(head.time, TRUE, "init",
                                 VehProc(Len(vehicles) + 1), "none")),
                     head.time)
    /\ UNCHANGED <<config, random_seed, scenario, base_stations, call,
                   phase, batteries, battery_pool, pool_get_queue,
                   charge_queue, chargers_users, active_chargers,
                   current_queue_length, stats, events, chg, run_no,
                   prev_run>>

(***************************************************************************)
(* Station.handle_vehicle_arrival, one process per vehicle.                *)
(***************************************************************************)
\* Variant: the lost swap is not counted.
RecordLostSwapSkipped(st) == st

\* self.stats.lost_swaps += 1
RecordLostSwap(st) == [st EXCEPT !.lost_swaps = @ + 1]

\* Variant: the completed swap is counted as a lost one.
RecordSwapAsLost(st) == [st EXCEPT !.lost_swaps = @ + 1]

\* Variant: the completed swap is counted twice.
RecordSwapTwice(st) == [st EXCEPT !.total_swaps = @ + 2]

\* self.stats.total_swaps += 1
RecordSwap(st) == [st EXCEPT !.total_swaps = @ + 1]

\* Variant: the swap takes no time.
SwapTimeoutZero(t) == t

\* The time at which env.timeout(swap_time_seconds) fires.
SwapTimeout(t) == t + swap_time_seconds

\* From entry to the stockout return or to the yield of battery_pool.get.
VehicleArrival(i) ==
    /\ Stepping
    /\ head.kind = "init" /\ head.proc = VehProc(i)
    /\ LET t == head.time
           who == VehicleEntity(vehicles[i].vehicle_id)
           ql == current_queue_length + 1
           peak == Max(stats.peak_queue_length, ql)
           log1 == LogEvent(events, t, "VEHICLE_ARRIVAL", who, VehProc(i),
                            [queue_length |-> ql])
       IN /\ now' = t
          /\ IF AvailableCount(battery_pool, batteries) = 0
             THEN /\ events' = LogEvent(log1, t, "LOST_SWAP", who, VehProc(i),
                                        [reason |-> "stockout", queue_length |-> ql])
                  /\ stats' = RecordLostSwap(
                                 [stats EXCEPT !.peak_queue_length = peak])
                  /\ current_queue_length' = ql - 1
                  /\ vehicles' = [vehicles EXCEPT ![i].pc = "lost",
                                                  ![i].arrival_time = t]
                  /\ queue' = Schedule(Pop(queue),
                                       Ev(t, FALSE, "done", VehProc(i), "none"))
                  /\ UNCHANGED <<battery_pool, pool_get_queue>>
             ELSE LET got == TriggerGetPool(
                                 Pop(queue), battery_pool,
                                 Append(pool_get_queue, i), <<>>,
                                 [vehicles EXCEPT ![i].pc = "parked",
                                                  ![i].arrival_time = t],
                                 batteries, t)
                  IN /\ events' = log1
                     /\ stats' = [stats EXCEPT !.peak_queue_length = peak]
                     /\ current_queue_length' = ql
                     /\ vehicles' = got.vehicles
                     /\ queue' = got.queue
                     /\ battery_pool' = got.items
                     /\ pool_get_queue' = got.get_queue
    /\ UNCHANGED <<config, random_seed, scenario, base_stations, call, station_rate,
                   phase, batteries, charge_queue, chargers_users,
                   active_chargers, chg, gen_pc, np_rng, uuids_seen, run_no,
                   prev_run>>

\* The get event is processed: wait time, SWAP_START, IN_SWAP, and the yield
\* of the swap timeout.
SwapStart(i) ==
    /\ Stepping
    /\ head.kind = "get" /\ head.proc = VehProc(i)
    /\ vehicles[i].pc = "getting"
    /\ LET t == head.time
           b == vehicles[i].battery[1]
           wait_time == t - vehicles[i].arrival_time
       IN /\ now' = t
          /\ stats' = [stats EXCEPT !.total_wait_time = @ + wait_time,
                                    !.max_wait_time = Max(@, wait_time)]
          /\ events' = LogEvent(events, t, "SWAP_START",
                                VehicleEntity(vehicles[i].vehicle_id), VehProc(i),
                                [battery_id |-> b, battery_soc |-> batteries[b].soc,
                                 wait_time |-> wait_time])
          /\ batteries' = [batteries EXCEPT ![b].status = "IN_SWAP"]
          /\ vehicles' = [vehicles EXCEPT ![i].pc = "swapping",
                                          ![i].wait_time = wait_time]
          /\ queue' = Schedule(Pop(queue),
                               Ev(SwapTimeout(t), FALSE, "timeout",
                                  VehProc(i), "none"))
    /\ UNCHANGED <<config, random_seed, scenario, base_stations, call, station_rate,
                   phase, battery_pool, pool_get_queue, charge_queue,
                   chargers_users, active_chargers, current_queue_length, chg,
                   gen_pc, np_rng, uuids_seen, run_no, prev_run>>

\* The swap timeout is processed: SWAP_COMPLETE, deplete, and the yield of
\* charge_queue.put, which hands the battery to the charge queue.
SwapComplete(i) ==
    /\ Stepping
    /\ head.kind = "timeout" /\ head.proc = VehProc(i)
    /\ vehicles[i].pc = "swapping"
    /\ LET t == head.time
           b == vehicles[i].battery[1]
       IN /\ now' = t
          /\ events' = LogEvent(events, t, "SWAP_COMPLETE",
                                VehicleEntity(vehicles[i].vehicle_id), VehProc(i),
                                [battery_id |-> b, duration |-> swap_time_seconds])
          /\ batteries' = [batteries EXCEPT ![b] = Deplete(@, deplete_target_soc)]
          /\ charge_queue' = StorePut(charge_queue, b)
          /\ vehicles' = [vehicles EXCEPT ![i].pc = "putting",
                                          ![i].battery = <<>>]
          /\ queue' = Schedule(Pop(queue),
                               Ev(t, FALSE, "put", VehProc(i), "charge_queue"))
    /\ UNCHANGED <<config, random_seed, scenario, base_stations, call, station_rate,
                   phase, battery_pool, pool_get_queue, chargers_users,
                   active_chargers, current_queue_length, stats, chg, gen_pc,
                   np_rng, uuids_seen, run_no, prev_run>>

\* The put event is processed: its first callback serves a parked charging
\* loop, then the handler counts the swap and returns.
SwapFinish(i) ==
    /\ Stepping
    /\ head.kind = "put" /\ head.proc = VehProc(i)
    /\ vehicles[i].pc = "putting"
    /\ LET t == head.time
           served == TriggerGetChargeQueue(Pop(queue), charge_queue, chg, t)
       IN /\ now' = t
          /\ charge_queue' = served.items
          /\ chg' = served.chg
          /\ stats' = RecordSwap(stats)
          /\ current_queue_length' = current_queue_length - 1
          /\ vehicles' = [vehicles EXCEPT ![i].pc = "done"]
          /\ queue' = Schedule(served.queue,
                               Ev(t, FALSE, "done", VehProc(i), "none"))
    /\ UNCHANGED <<config, random_seed, scenario, base_stations, call, station_rate,
                   phase, batteries, battery_pool, pool_get_queue,
                   chargers_users, active_chargers, events, gen_pc, np_rng,
                   uuids_seen, run_no, prev_run>>

(***************************************************************************)
(* Station._charging_loop, one process per station.                        *)
(***************************************************************************)
\* charge_queue.get() at the loop head: the loop joins the get queue and
\* _trigger_get runs at once.
ChargeQueueGet(q, items, c, t) ==
    TriggerGetChargeQueue(q, items, [c EXCEPT !.pc = "waiting", !.battery = <<>>], t)

ChargingLoopStart ==
    /\ Stepping
    /\ head.kind = "init" /\ head.proc = ChgProc
    /\ LET t == head.time
           got == ChargeQueueGet(Pop(queue), charge_queue, chg, t)
       IN /\ now' = t
          /\ queue' = got.queue
          /\ charge_queue' = got.items
          /\ chg' = got.chg
    /\ UNCHANGED <<config, random_seed, scenario, base_stations, call, station_rate,
                   phase, batteries, battery_pool, pool_get_queue,
                   chargers_users, active_chargers, current_queue_length, stats,
                   events, gen_pc, vehicles, np_rng, uuids_seen, run_no,
                   prev_run>>

\* The get event is processed: the loop has its battery and yields
\* chargers.request().
ChargeQueueGot ==
    /\ Stepping
    /\ head.kind = "get" /\ head.proc = ChgProc
    /\ chg.pc = "getting"
    /\ LET t == head.time
           req == TriggerPutChargers(Pop(queue), chargers_users,
                                     [chg EXCEPT !.pc = "wait_charger"],
                                     config.charger_count, t)
       IN /\ now' = t
          /\ queue' = req.queue
          /\ chargers_users' = req.users
          /\ chg' = req.chg
    /\ UNCHANGED <<config, random_seed, scenario, base_stations, call, station_rate,
                   phase, batteries, battery_pool, pool_get_queue,
                   charge_queue, active_chargers, current_queue_length, stats,
                   events, gen_pc, vehicles, np_rng, uuids_seen, run_no,
                   prev_run>>

\* battery.set_charging(), CHARGE_START and the yield of the charge timeout.
BeginCharge(q, log, bats, c, t) ==
    LET b == c.battery[1]
    IN /\ batteries' = [bats EXCEPT ![b] = SetCharging(@)]
       /\ events' = LogEvent(log, t, "CHARGE_START", BatteryEntity(b), ChgProc,
                             [initial_soc |-> bats[b].soc])
       /\ queue' = Schedule(q, Ev(t + CalculateChargeTime(bats[b].soc), FALSE,
                                  "timeout", ChgProc, "none"))
       /\ chg' = [c EXCEPT !.pc = "charging"]

\* Variant: drawing exactly the limit counts as exceeding it.
IsGridLimitedAtLimit(active) ==
    IF config.grid_power_limit_kw = <<>> THEN FALSE
    ELSE active * charge_power_kw >= config.grid_power_limit_kw[1]

\* Station._is_grid_limited; grid_power_limit_kw is <<>> for None.
IsGridLimited(active) ==
    IF config.grid_power_limit_kw = <<>> THEN FALSE
    ELSE active * charge_power_kw > config.grid_power_limit_kw[1]

\* The request event is processed: the charger is held.
ChargerAcquired ==
    /\ Stepping
    /\ head.kind = "request" /\ head.proc = ChgProc
    /\ chg.pc = "requesting"
    /\ LET t == head.time
           b == chg.battery[1]
           c == [chg EXCEPT !.charge_start = t]
           active == active_chargers + 1
           log == IF IsGridLimited(active)
                  THEN LogEvent(events, t, "GRID_LIMIT_HIT", StationEntity,
                                ChgProc, [active_chargers |-> active])
                  ELSE events
       IN /\ now' = t
          /\ active_chargers' = active
          /\ IF config.cooldown_seconds > 0
             THEN /\ batteries' = [batteries EXCEPT ![b].status = "COOLING"]
                  /\ events' = log
                  /\ queue' = Schedule(Pop(queue),
                                       Ev(t + config.cooldown_seconds, FALSE,
                                          "timeout", ChgProc, "none"))
                  /\ chg' = [c EXCEPT !.pc = "cooling"]
             ELSE BeginCharge(Pop(queue), log, batteries, c, t)
    /\ UNCHANGED <<config, random_seed, scenario, base_stations, call, station_rate,
                   phase, battery_pool, pool_get_queue, charge_queue,
                   chargers_users, current_queue_length, stats, gen_pc,
                   vehicles, np_rng, uuids_seen, run_no, prev_run>>

CooldownOver ==
    /\ Stepping
    /\ head.kind = "timeout" /\ head.proc = ChgProc
    /\ chg.pc = "cooling"
    /\ now' = head.time
    /\ BeginCharge(Pop(queue), events, batteries, chg, head.time)
    /\ UNCHANGED <<config, random_seed, scenario, base_stations, call, station_rate,
                   phase, battery_pool, pool_get_queue, charge_queue,
                   chargers_users, active_chargers, current_queue_length,
                   stats, gen_pc, vehicles, np_rng, uuids_seen, run_no,
                   prev_run>>

\* Variant: the duration is counted from the start of the run.
ChargeDurationFromZero(t, charge_start) == t

\* charge_duration = self.env.now - charge_start
ChargeDuration(t, charge_start) == t - charge_start

\* Variant: the charger is never given back.
ReleaseForgotten(users) == users

\* Resource.release at the end of the with block: the user leaves at once
\* and the release event is scheduled.
Release(users) == users - 1

\* The charge timeout is processed: complete_charge, the statistics,
\* CHARGE_COMPLETE, release of the charger and the yield of
\* battery_pool.put, which hands the battery to the pool.
ChargeComplete ==
    /\ Stepping
    /\ head.kind = "timeout" /\ head.proc = ChgProc
    /\ chg.pc = "charging"
    /\ LET t == head.time
           b == chg.battery[1]
           done == CompleteCharge(batteries[b], full_soc)
           charge_duration == ChargeDuration(t, chg.charge_start)
           energy_used == CalculateEnergyUsed(charge_duration)
       IN /\ now' = t
          /\ batteries' = [batteries EXCEPT ![b] = done]
          /\ stats' = [stats EXCEPT !.total_charge_time = @ + charge_duration,
                                    !.total_energy_wh = @ + energy_used,
                                    !.charger_busy_time = @ + charge_duration]
          /\ events' = LogEvent(events, t, "CHARGE_COMPLETE", BatteryEntity(b),
                                ChgProc,
                                [final_soc |-> done.soc,
                                 duration |-> charge_duration,
                                 energy_wh |-> energy_used])
          /\ active_chargers' = active_chargers - 1
          /\ chargers_users' = Release(chargers_users)
          /\ battery_pool' = StorePut(battery_pool, b)
          /\ chg' = [chg EXCEPT !.pc = "returning", !.battery = <<>>]
          /\ queue' = Schedule(Schedule(Pop(queue),
                                        Ev(t, FALSE, "release", NoProc, "chargers")),
                               Ev(t, FALSE, "put", ChgProc, "pool"))
    /\ UNCHANGED <<config, random_seed, scenario, base_stations, call, station_rate,
                   phase, pool_get_queue, charge_queue,
                   current_queue_length, gen_pc, vehicles, np_rng, uuids_seen,
                   run_no, prev_run>>

\* The put event is processed: its first callback serves parked vehicles,
\* then the loop is back at its head and gets the next battery.
ChargeReturned ==
    /\ Stepping
    /\ head.kind = "put" /\ head.proc = ChgProc
    /\ chg.pc = "returning"
    /\ LET t == head.time
           served == TriggerGetPool(Pop(queue), battery_pool, pool_get_queue,
                                    <<>>, vehicles, batteries, t)
           got == ChargeQueueGet(served.queue, charge_queue, chg, t)
       IN /\ now' = t
          /\ battery_pool' = served.items
          /\ pool_get_queue' = served.get_queue
          /\ vehicles' = served.vehicles
          /\ queue' = got.queue
          /\ charge_queue' = got.items
          /\ chg' = got.chg
    /\ UNCHANGED <<config, random_seed, scenario, base_stations, call, station_rate,
                   phase, batteries, chargers_users, active_chargers,
                   current_queue_length, stats, events, gen_pc, np_rng,
                   uuids_seen, run_no, prev_run>>

(***************************************************************************)
(* Events no process waits for: the puts of _initialize_batteries, the     *)
(* release of a charger and the end of a vehicle process.  Their store or  *)
(* resource callbacks still run.                                           *)
(***************************************************************************)
PlainEvent ==
    /\ Stepping
    /\ \/ head.kind \in {"done", "release"}
       \/ head.kind = "put" /\ head.proc = NoProc
    /\ LET t == head.time
           pool == IF head.kind = "put" /\ head.store = "pool"
                   THEN TriggerGetPool(Pop(queue), battery_pool, pool_get_queue,
                                       <<>>, vehicles, batteries, t)
                   ELSE [queue |-> Pop(queue), items |-> battery_pool,
                         get_queue |-> pool_get_queue, vehicles |-> vehicles]
           cq == IF head.kind = "put" /\ head.store = "charge_queue"
                 THEN TriggerGetChargeQueue(pool.queue, charge_queue, chg, t)
                 ELSE [queue |-> pool.queue, items |-> charge_queue, chg |-> chg]
           res == IF head.kind = "release"
                  THEN TriggerPutChargers(cq.queue, chargers_users, cq.chg,
                                          config.charger_count, t)
                  ELSE [queue |-> cq.queue, users |-> chargers_users, chg |-> cq.chg]
       IN /\ now' = t
          /\ battery_pool' = pool.items
          /\ pool_get_queue' = pool.get_queue
          /\ vehicles' = pool.vehicles
          /\ charge_queue' = cq.items
          /\ chargers_users' = res.users
          /\ chg' = res.chg
          /\ queue' = res.queue
    /\ UNCHANGED <<config, random_seed, scenario, base_stations, call, station_rate,
                   phase, batteries, active_chargers,
                   current_queue_length, stats, events, gen_pc, np_rng,
                   uuids_seen, run_no, prev_run>>

Next ==
    \/ Run
    \/ Stop
    \/ GeneratorStart
    \/ GeneratorSleepOver
    \/ GeneratorArrival
    \/ \E i \in 1..Len(vehicles) : VehicleArrival(i)
    \/ \E i \in 1..Len(vehicles) : SwapStart(i)
    \/ \E i \in 1..Len(vehicles) : SwapComplete(i)
    \/ \E i \in 1..Len(vehicles) : SwapFinish(i)
    \/ ChargingLoopStart
    \/ ChargeQueueGot
    \/ ChargerAcquired
    \/ CooldownOver
    \/ ChargeComplete
    \/ ChargeReturned
    \/ PlainEvent

Spec == Init /\ [][Next]_vars

(***************************************************************************)
(* Two runs of one (config, seed): when the first run has finished, a new  *)
(* SimulationOrchestrator is constructed from the same configuration and   *)
(* run; the first run's trace and statistics are kept for comparison.      *)
(***************************************************************************)
Restart ==
    /\ phase = "finished"
    /\ run_no = 1
    /\ run_no' = 2
    /\ prev_run' = [events |-> events, stats |-> stats]
    /\ np_rng' = random_seed
    /\ phase' = "constructed"
    /\ now' = 0
    /\ batteries' = StationInit(config).batteries
    /\ battery_pool' = StationInit(config).battery_pool
    /\ pool_get_queue' = <<>>
    /\ charge_queue' = StationInit(config).charge_queue
    /\ chargers_users' = 0
    /\ active_chargers' = 0
    /\ current_queue_length' = 0
    /\ stats' = ZeroStats
    /\ events' = <<>>
    /\ chg' = StationInit(config).chg
    /\ gen_pc' = "none"
    /\ station_rate' = NoRate
    /\ vehicles' = <<>>
    /\ queue' = StationInit(config).queue
    /\ UNCHANGED <<config, random_seed, scenario, base_stations, call, uuids_seen>>

\* The configurations run twice: one station of two batteries, with no
\* demand, with the default curve, and with the real-network mean.
ReproConfigs ==
    {cfg \in Configs :
        /\ cfg.total_batteries = 2
        /\ cfg.charger_count = 1
        /\ cfg.cooldown_seconds = default_cooldown_seconds}

ReproSeeds(cfg) == {seed \in Seeds(cfg) : seed[1] # LateGap(cfg)}

ReproInit ==
    /\ \E cfg \in ReproConfigs : \E seed \in ReproSeeds(cfg) : Constructed(cfg, seed)
    /\ uuids_seen = 0
    /\ run_no = 1
    /\ prev_run = NoRun

NextRepro ==
    \/ Next
    \/ Restart

SpecRepro == ReproInit /\ [][NextRepro]_vars

(***************************************************************************)
(* Runs under fairness: env.run keeps stepping while the heap is not empty *)
(* and the stop event has not been processed.  Taken on the two-battery    *)
(* station with seeds that differ in their first draw.                     *)
(***************************************************************************)
FairSeeds(cfg) ==
    {seed \in Seeds(cfg) : \A k \in 2..MaxArrivals : seed[k] = LongGap}

FairInit ==
    /\ \E cfg \in ReproConfigs : \E seed \in FairSeeds(cfg) : Constructed(cfg, seed)
    /\ uuids_seen = 0
    /\ run_no = 1
    /\ prev_run = NoRun

SpecFair == FairInit /\ [][Next]_vars /\ WF_vars(Next)

(***************************************************************************)
(* A station run with a grid power limit and then, from the same config    *)
(* and seed, with grid_power_limit_kw = None.  The limits are below, at    *)
(* and above the draw of one charger.                                      *)
(***************************************************************************)
GridLimits == {charge_power_kw \div 2, charge_power_kw, 2 * charge_power_kw}

GridConfigs ==
    {[cfg EXCEPT !.grid_power_limit_kw = <<kw>>] :
        cfg \in {c \in Configs : c.total_batteries = 2 /\ c.charger_count = 1},
        kw \in GridLimits}

GridInit ==
    /\ \E cfg \in GridConfigs : \E seed \in FairSeeds(cfg) : Constructed(cfg, seed)
    /\ uuids_seen = 0
    /\ run_no = 1
    /\ prev_run = NoRun

RestartWithoutLimit ==
    /\ phase = "finished"
    /\ run_no = 1
    /\ run_no' = 2
    /\ config' = [config EXCEPT !.grid_power_limit_kw = <<>>]
    /\ prev_run' = [events |-> events, stats |-> stats]
    /\ np_rng' = random_seed
    /\ phase' = "constructed"
    /\ now' = 0
    /\ batteries' = StationInit(config).batteries
    /\ battery_pool' = StationInit(config).battery_pool
    /\ pool_get_queue' = <<>>
    /\ charge_queue' = StationInit(config).charge_queue
    /\ chargers_users' = 0
    /\ active_chargers' = 0
    /\ current_queue_length' = 0
    /\ stats' = ZeroStats
    /\ events' = <<>>
    /\ chg' = StationInit(config).chg
    /\ gen_pc' = "none"
    /\ station_rate' = NoRate
    /\ vehicles' = <<>>
    /\ queue' = StationInit(config).queue
    /\ UNCHANGED <<random_seed, scenario, base_stations, call, uuids_seen>>

NextGrid ==
    \/ Next
    \/ RestartWithoutLimit

SpecGrid == GridInit /\ [][NextGrid]_vars

(***************************************************************************)
(* Scenarios.  A SimulationConfig is submitted with a list of              *)
(* interventions; pydantic runs Intervention.validate_intervention_params  *)
(* on each when the config is built, and SimulationOrchestrator.__init__   *)
(* applies them to copies of config.stations before it creates the         *)
(* stations.  parameters is the dict as a function of its keys;            *)
(* target_station_id is <<>> for None.  The station of the model has id    *)
(* StationEntity[2]; AbsentStation is an id that config.stations lacks.    *)
(***************************************************************************)
MaxInterventions == 2

AbsentStation == 1

NoParameters == [k \in {} |-> 0]

Intervention(type, target, parameters) ==
    [type |-> type, target_station_id |-> target, parameters |-> parameters]

\* The interventions submitted.  ADD_STATION is taken without
\* total_batteries only and REMOVE_STATION never with the station of the
\* model as its target, so that an accepted scenario runs one station.
Interventions ==
    {Intervention("MODIFY_CHARGERS", <<StationEntity[2]>>, "new_count" :> n) :
         n \in {0, MaxChargers}}
    \cup {Intervention("MODIFY_CHARGERS", <<AbsentStation>>, "new_count" :> 0),
          Intervention("MODIFY_CHARGERS", <<StationEntity[2]>>, NoParameters),
          Intervention("MODIFY_CHARGERS", <<>>, "new_count" :> MaxChargers)}
    \cup {Intervention("MODIFY_INVENTORY", <<StationEntity[2]>>, "delta" :> d) :
              d \in {-2, -1, 1}}
    \cup {Intervention("MODIFY_INVENTORY", <<StationEntity[2]>>, NoParameters),
          Intervention("MODIFY_INVENTORY", <<>>, "delta" :> 1)}
    \cup {Intervention("DEMAND_MULTIPLIER", <<>>, "multiplier" :> 2),
          Intervention("DEMAND_MULTIPLIER", <<>>, NoParameters)}
    \cup {Intervention("ADD_STATION", <<>>,
                       "id" :> AbsentStation @@ "location" :> 0
                       @@ "charger_count" :> 1)}
    \cup {Intervention("REMOVE_STATION", <<>>, NoParameters),
          Intervention("REMOVE_STATION", <<AbsentStation>>, NoParameters)}
    \cup {Intervention("INJECT_FAULT", t,
                       "fault_type" :> 0 @@ "duration_seconds" :> 60) :
              t \in {<<>>, <<StationEntity[2]>>}}

Scenarios == UNION {SeqsOfLen(Interventions, n) : n \in 0..MaxInterventions}

RequiredParams(type) ==
    CASE type = "ADD_STATION" ->
             {"id", "location", "charger_count", "total_batteries"}
      [] type = "REMOVE_STATION" -> {}
      [] type = "MODIFY_CHARGERS" -> {"new_count"}
      [] type = "MODIFY_INVENTORY" -> {"delta"}
      [] type = "DEMAND_MULTIPLIER" -> {"multiplier"}
      [] type = "POLICY_CHANGE" -> {"policy_name", "new_value"}
      [] type = "INJECT_FAULT" -> {"fault_type", "duration_seconds"}

TargetedTypes ==
    {"REMOVE_STATION", "MODIFY_CHARGERS", "MODIFY_INVENTORY", "INJECT_FAULT"}

\* Variant: only the parameters are looked at.
ValidateInterventionParamsOnly(iv) ==
    RequiredParams(iv.type) \subseteq DOMAIN iv.parameters

\* Intervention.validate_intervention_params: TRUE when it returns self,
\* FALSE when it raises.
ValidateIntervention(iv) ==
    /\ iv.type \in TargetedTypes => iv.target_station_id # <<>>
    /\ RequiredParams(iv.type) \subseteq DOMAIN iv.parameters

\* Variant: MODIFY_CHARGERS of an id that is not in the dict inserts a
\* station of that id.
ApplySingleInterventionInserting(stations, iv) ==
    LET targeted == /\ iv.target_station_id # <<>>
                    /\ iv.target_station_id[1] \in DOMAIN stations
        target_id == iv.target_station_id[1]
        params == iv.parameters
    IN CASE iv.type = "ADD_STATION" ->
                (params["id"] :> [id |-> params["id"],
                                  total_batteries |-> params["total_batteries"],
                                  charger_count |-> params["charger_count"]])
                @@ stations
         [] iv.type = "REMOVE_STATION" /\ targeted ->
                [id \in DOMAIN stations \ {target_id} |-> stations[id]]
         [] iv.type = "MODIFY_CHARGERS" /\ iv.target_station_id # <<>> ->
                (target_id :> [id |-> target_id, total_batteries |-> 1,
                               charger_count |-> params["new_count"]])
                @@ stations
         [] iv.type = "MODIFY_INVENTORY" /\ targeted ->
                [stations EXCEPT ![target_id].total_batteries = @ + params["delta"]]
         [] OTHER -> stations

\* _apply_single_intervention on the dict of station configs.
ApplySingleIntervention(stations, iv) ==
    LET targeted == /\ iv.target_station_id # <<>>
                    /\ iv.target_station_id[1] \in DOMAIN stations
        target_id == iv.target_station_id[1]
        params == iv.parameters
    IN CASE iv.type = "ADD_STATION" ->
                (params["id"] :> [id |-> params["id"],
                                  total_batteries |-> params["total_batteries"],
                                  charger_count |-> params["charger_count"]])
                @@ stations
         [] iv.type = "REMOVE_STATION" /\ targeted ->
                [id \in DOMAIN stations \ {target_id} |-> stations[id]]
         [] iv.type = "MODIFY_CHARGERS" /\ targeted ->
                [stations EXCEPT ![target_id].charger_count = params["new_count"]]
         [] iv.type = "MODIFY_INVENTORY" /\ targeted ->
                [stations EXCEPT ![target_id].total_batteries = @ + params["delta"]]
         [] OTHER -> stations

\* _apply_interventions: the interventions in list order.
RECURSIVE ApplyInterventions(_, _)
ApplyInterventions(stations, ivs) ==
    IF ivs = <<>> THEN stations
    ELSE ApplyInterventions(ApplySingleIntervention(stations, Head(ivs)), Tail(ivs))

\* simpy.Resource(env, capacity): raises ValueError unless capacity > 0.
ResourceAccepts(capacity) == capacity > 0

\* The configs submitted with a scenario: two batteries, one charger, the
\* default cooldown.
ScenarioConfigs ==
    {cfg \in Configs :
        /\ cfg.total_batteries = 2
        /\ cfg.charger_count = 1
        /\ cfg.cooldown_seconds = default_cooldown_seconds}

\* The request is submitted: no orchestrator, environment or station yet.
ScenarioInit ==
    /\ \E cfg \in ScenarioConfigs : \E seed \in FairSeeds(cfg) :
           /\ config = cfg
           /\ base_stations = BaseStations(cfg)
           /\ random_seed = seed
           /\ np_rng = seed
    /\ scenario \in Scenarios
    /\ call = NoCall
    /\ phase = "submitted"
    /\ now = 0
    /\ batteries = InitialBatteries(0)
    /\ battery_pool = <<>>
    /\ pool_get_queue = <<>>
    /\ charge_queue = <<>>
    /\ chargers_users = 0
    /\ active_chargers = 0
    /\ current_queue_length = 0
    /\ stats = ZeroStats
    /\ events = <<>>
    /\ chg = [pc |-> "none", battery |-> <<>>, charge_start |-> 0]
    /\ gen_pc = "none"
    /\ station_rate = NoRate
    /\ vehicles = <<>>
    /\ queue = EmptyQueue
    /\ uuids_seen = 0
    /\ run_no = 1
    /\ prev_run = NoRun

\* SimulationConfig(...) is built from the request: every intervention
\* passes its model validator, or the request is rejected.
ValidateScenario ==
    /\ phase = "submitted"
    /\ phase' = IF \A k \in 1..Len(scenario) : ValidateIntervention(scenario[k])
                THEN "validated" ELSE "rejected"
    /\ UNCHANGED <<config, random_seed, scenario, base_stations, call, station_rate,
                   now, queue, batteries, battery_pool, pool_get_queue,
                   charge_queue, chargers_users, active_chargers,
                   current_queue_length, stats, events, chg, gen_pc, vehicles,
                   np_rng, uuids_seen, run_no, prev_run>>

\* SimulationOrchestrator.__init__: _effective_stations is computed, then
\* _initialize_stations builds the Station, whose first step is
\* simpy.Resource(env, capacity=config.charger_count).  config becomes the
\* effective station config, the one the Station reads.
ConstructOrchestrator ==
    /\ phase = "validated"
    /\ LET stations == ApplyInterventions(StationEntity[2] :> base_stations,
                                          scenario)
           effective == stations[StationEntity[2]]
           cfg == [config EXCEPT !.total_batteries = effective.total_batteries,
                                 !.charger_count = effective.charger_count]
       IN /\ config' = cfg
          /\ IF ResourceAccepts(cfg.charger_count)
             THEN /\ phase' = "constructed"
                  /\ batteries' = StationInit(cfg).batteries
                  /\ battery_pool' = StationInit(cfg).battery_pool
                  /\ charge_queue' = StationInit(cfg).charge_queue
                  /\ chg' = StationInit(cfg).chg
                  /\ queue' = StationInit(cfg).queue
             ELSE /\ phase' = "failed"
                  /\ UNCHANGED <<batteries, battery_pool, charge_queue, chg,
                                 queue>>
    /\ UNCHANGED <<random_seed, scenario, base_stations, call, station_rate, now,
                   pool_get_queue, chargers_users, active_chargers,
                   current_queue_length, stats, events, gen_pc, vehicles,
                   np_rng, uuids_seen, run_no, prev_run>>

NextScenario ==
    \/ ValidateScenario
    \/ ConstructOrchestrator
    \/ Next

SpecScenario == ScenarioInit /\ [][NextScenario]_vars

(***************************************************************************)
(* Two runs of one config and seed that differ in demand_multiplier: the   *)
(* first with multiplier 1, the second with 65/64.  The demand curve has   *)
(* arrivals in the last hour of the day only, so that the generator sleeps *)
(* 23 hours and then draws; the draws are multiples of 65 s, so that the   *)
(* intervals of both runs are whole seconds.                               *)
(***************************************************************************)
LateCurve ==
    [h \in 0..(hours_per_day - 1) |->
        IF h = hours_per_day - 1 THEN default_arrivals_per_hour ELSE 0]

MoreDemand == <<65, 64>>

DemandConfigs ==
    {[cfg EXCEPT !.demand_curve = LateCurve] :
        cfg \in {c \in Configs : /\ c.total_batteries = 1
                                 /\ c.charger_count = 1
                                 /\ c.cooldown_seconds = default_cooldown_seconds
                                 /\ c.mean_arrival_time_min = 0
                                 /\ c.demand_curve = ZeroCurve}}

DemandSeeds == SeqsOfLen({2 * 65, 7 * 65, 46 * 65}, MaxArrivals)

DemandInit ==
    /\ \E cfg \in DemandConfigs : \E seed \in DemandSeeds : Constructed(cfg, seed)
    /\ uuids_seen = 0
    /\ run_no = 1
    /\ prev_run = NoRun

RestartWithMoreDemand ==
    /\ phase = "finished"
    /\ run_no = 1
    /\ run_no' = 2
    /\ config' = [config EXCEPT !.demand_multiplier = MoreDemand]
    /\ prev_run' = [events |-> events, stats |-> stats]
    /\ np_rng' = random_seed
    /\ phase' = "constructed"
    /\ now' = 0
    /\ batteries' = StationInit(config).batteries
    /\ battery_pool' = StationInit(config).battery_pool
    /\ pool_get_queue' = <<>>
    /\ charge_queue' = StationInit(config).charge_queue
    /\ chargers_users' = 0
    /\ active_chargers' = 0
    /\ current_queue_length' = 0
    /\ stats' = ZeroStats
    /\ events' = <<>>
    /\ chg' = StationInit(config).chg
    /\ gen_pc' = "none"
    /\ station_rate' = NoRate
    /\ vehicles' = <<>>
    /\ queue' = StationInit(config).queue
    /\ UNCHANGED <<random_seed, scenario, base_stations, call, uuids_seen>>

NextDemand ==
    \/ Next
    \/ RestartWithMoreDemand

SpecDemand == DemandInit /\ [][NextDemand]_vars

(***************************************************************************)
(* Functions taken on their own.  No orchestrator runs: the variables of   *)
(* the run stay as they are before construction, and call holds the        *)
(* arguments, the locals and the result of the function.                   *)
(***************************************************************************)
IdleConfig == CHOOSE cfg \in ScenarioConfigs : NoDemand(cfg)

Idle ==
    /\ config = IdleConfig
    /\ base_stations = BaseStations(IdleConfig)
    /\ random_seed = [k \in 1..MaxArrivals |-> LongGap]
    /\ np_rng = random_seed
    /\ scenario = <<>>
    /\ phase = "idle"
    /\ now = 0
    /\ batteries = InitialBatteries(0)
    /\ battery_pool = <<>>
    /\ pool_get_queue = <<>>
    /\ charge_queue = <<>>
    /\ chargers_users = 0
    /\ active_chargers = 0
    /\ current_queue_length = 0
    /\ stats = ZeroStats
    /\ events = <<>>
    /\ chg = [pc |-> "none", battery |-> <<>>, charge_start |-> 0]
    /\ gen_pc = "none"
    /\ station_rate = NoRate
    /\ vehicles = <<>>
    /\ queue = EmptyQueue
    /\ uuids_seen = 0
    /\ run_no = 1
    /\ prev_run = NoRun

\* Every variable of the run: a function taken on its own leaves them alone.
run_vars ==
    <<config, random_seed, scenario, base_stations, station_rate, phase, now,
      queue, batteries, battery_pool, pool_get_queue, charge_queue,
      chargers_users, active_chargers, current_queue_length, stats, events,
      chg, gen_pc, vehicles, np_rng, uuids_seen, run_no, prev_run>>

(***************************************************************************)
(* SimulationConfig.validate_unique_station_ids and                        *)
(* SimulationOrchestrator._apply_interventions on several stations.        *)
(* call.base_stations is the list config.stations, call.scenario is <<>>   *)
(* for None and <<interventions>> otherwise, call.stations is the local    *)
(* dict.  call.shared holds the ids whose dict entry is the very object of *)
(* the base list: a MODIFY_* intervention assigns to a field of the dict   *)
(* entry, which changes the base list too if the object is shared.         *)
(* call.given keeps the base list as it was submitted.                     *)
(***************************************************************************)
MaxStations == 2

StationIds == 0..(MaxStations - 1)

StationValues ==
    {[id |-> i, total_batteries |-> 2, charger_count |-> 1] : i \in StationIds}

StationLists == UNION {SeqsOfLen(StationValues, n) : n \in 1..MaxStations}

\* Interventions that pass validation, on the ids of StationIds.
AppliedInterventions ==
    {Intervention("ADD_STATION", <<>>,
                  "id" :> i @@ "location" :> 0 @@ "charger_count" :> MaxChargers
                  @@ "total_batteries" :> MaxBatteries) : i \in StationIds}
    \cup {Intervention("REMOVE_STATION", <<i>>, NoParameters) : i \in StationIds}
    \cup {Intervention("MODIFY_CHARGERS", <<i>>, "new_count" :> MaxChargers) :
              i \in StationIds}
    \cup {Intervention("MODIFY_INVENTORY", <<i>>, "delta" :> 1) : i \in StationIds}
    \cup {Intervention("DEMAND_MULTIPLIER", <<>>, "multiplier" :> 2)}

AppliedScenarios ==
    {<<>>} \cup {<<ivs>> : ivs \in UNION {SeqsOfLen(AppliedInterventions, n) :
                                            n \in 0..MaxInterventions}}

ApplyInit ==
    /\ Idle
    /\ \E base \in StationLists : \E sc \in AppliedScenarios :
           call = [fn |-> "_apply_interventions", pc |-> "submitted",
                   given |-> base, base_stations |-> base, scenario |-> sc,
                   stations |-> <<>>, shared |-> {}, k |-> 1]

\* Variant: duplicate ids are let through.
ValidateUniqueStationIdsAny(v) == TRUE

\* validate_unique_station_ids: TRUE when it returns v, FALSE when it
\* raises.
ValidateUniqueStationIds(v) ==
    Len(v) = Cardinality({v[j].id : j \in 1..Len(v)})

ValidateStations ==
    /\ call.fn = "_apply_interventions" /\ call.pc = "submitted"
    /\ call' = [call EXCEPT !.pc = IF ValidateUniqueStationIds(call.base_stations)
                                   THEN "validated" ELSE "rejected"]
    /\ UNCHANGED run_vars

\* Variant: the dict is built from the objects of the base list.
NoModelCopy(ids) == ids

\* s.model_copy(deep=True) for every base station: the ids whose copy is
\* still the object of the base list.
ModelCopy(ids) == {}

\* {s.id: ... for s in base_stations}: a later entry of an id replaces it.
StationDict(base) ==
    [id \in {base[j].id : j \in 1..Len(base)} |->
        base[CHOOSE j \in 1..Len(base) :
                 /\ base[j].id = id
                 /\ \A h \in (j + 1)..Len(base) : base[h].id # id]]

\* _apply_interventions up to its loop; with no scenario it returns the
\* base list itself.
ApplyInterventionsStart ==
    /\ call.fn = "_apply_interventions" /\ call.pc = "validated"
    /\ IF call.scenario = <<>>
       THEN call' = [call EXCEPT !.pc = "returned",
                                 !.stations = StationDict(call.base_stations),
                                 !.shared = DOMAIN StationDict(call.base_stations)]
       ELSE call' = [call EXCEPT !.pc = "loop",
                                 !.stations = StationDict(call.base_stations),
                                 !.shared = ModelCopy(DOMAIN StationDict(
                                                          call.base_stations))]
    /\ UNCHANGED run_vars

\* One iteration of the loop over config.scenario.interventions.
ApplyIntervention ==
    /\ call.fn = "_apply_interventions" /\ call.pc = "loop"
    /\ call.k <= Len(call.scenario[1])
    /\ LET iv == call.scenario[1][call.k]
           after == ApplySingleIntervention(call.stations, iv)
           assigned == IF iv.type \in {"MODIFY_CHARGERS", "MODIFY_INVENTORY"}
                       THEN {id \in DOMAIN after \cap call.shared :
                                iv.target_station_id = <<id>>}
                       ELSE {}
           replaced == IF iv.type = "ADD_STATION" THEN {iv.parameters["id"]}
                       ELSE {}
       IN call' = [call EXCEPT
                      !.stations = after,
                      !.k = call.k + 1,
                      !.shared = (call.shared \cap DOMAIN after) \ replaced,
                      !.base_stations =
                          [j \in 1..Len(call.base_stations) |->
                              IF call.base_stations[j].id \in assigned
                              THEN after[call.base_stations[j].id]
                              ELSE call.base_stations[j]]]
    /\ UNCHANGED run_vars

\* return list(stations.values())
ApplyInterventionsReturn ==
    /\ call.fn = "_apply_interventions" /\ call.pc = "loop"
    /\ call.k > Len(call.scenario[1])
    /\ call' = [call EXCEPT !.pc = "returned"]
    /\ UNCHANGED run_vars

NextApply ==
    \/ ValidateStations
    \/ ApplyInterventionsStart
    \/ ApplyIntervention
    \/ ApplyInterventionsReturn

SpecApply == ApplyInit /\ [][NextApply]_vars

(***************************************************************************)
(* The rate of _vehicle_arrival_generator taken on its own, for several    *)
(* stations, means, multipliers, adjustments and hours: one pass of the    *)
(* loop up to station_rate, then the branch on station_rate <= 0.          *)
(***************************************************************************)
PeakCurve == [h \in 0..(hours_per_day - 1) |-> IF h = 8 THEN 45 ELSE 5]

RateMeans == {0, default_mean_arrival_min, 15}
RateCurves == {ZeroCurve, FlatCurve, PeakCurve}
RateMultipliers == {<<1, 1>>, <<2, 1>>, <<1, 2>>}
RateAdjustments == {NoAdjustments, 8 :> <<3, 2>>, 8 :> <<0, 1>>}
RateHours == {0, 8, hours_per_day - 1}

RateInit ==
    /\ Idle
    /\ \E mean \in RateMeans, curve \in RateCurves, m \in RateMultipliers,
          adj \in RateAdjustments, hour \in RateHours, n \in 1..MaxStations :
           call = [fn |-> "_vehicle_arrival_generator", pc |-> "loop",
                   mean_arrival_time_min |-> mean, demand_curve |-> curve,
                   demand_multiplier |-> m, scenario_adjustments |-> adj,
                   current_hour |-> hour, nstations |-> n,
                   station_rate |-> NoRate]

ComputeStationRate ==
    /\ call.fn = "_vehicle_arrival_generator" /\ call.pc = "loop"
    /\ call' = [call EXCEPT
                   !.pc = "rate",
                   !.station_rate =
                       StationRateOf(call.mean_arrival_time_min,
                                     call.demand_curve, call.demand_multiplier,
                                     call.scenario_adjustments,
                                     call.current_hour, call.nstations)]
    /\ UNCHANGED run_vars

\* if station_rate <= 0: timeout 3600 and continue; otherwise draw.
BranchOnRate ==
    /\ call.fn = "_vehicle_arrival_generator" /\ call.pc = "rate"
    /\ call' = [call EXCEPT !.pc = IF RatePositive(call.station_rate)
                                   THEN "interval" ELSE "sleep"]
    /\ UNCHANGED run_vars

NextRate == ComputeStationRate \/ BranchOnRate

SpecRate == RateInit /\ [][NextRate]_vars

(***************************************************************************)
(* _aggregate_results and compare_results taken on their own.  Energy is   *)
(* in Wh and money in thousandths of a rupee, so that 8 per kWh is 8       *)
(* thousandths per Wh; averages and rates are fractions <<numerator,       *)
(* denominator>>; a percentage rounded to two decimals is an integer       *)
(* number of hundredths of a percent.                                      *)
(***************************************************************************)
\* The statistics of a station at the end of a run.
StationStats ==
    {[total_swaps |-> 0, lost_swaps |-> 0, total_wait_time |-> 0,
      total_energy_wh |-> 0],
     [total_swaps |-> 0, lost_swaps |-> 2, total_wait_time |-> 0,
      total_energy_wh |-> 500],
     [total_swaps |-> 1, lost_swaps |-> 2, total_wait_time |-> 0,
      total_energy_wh |-> 4000],
     [total_swaps |-> 3, lost_swaps |-> 0, total_wait_time |-> 45,
      total_energy_wh |-> 12250]}

\* self.stations at the end of a run: none when a scenario removed them all.
StationStatsLists == UNION {SeqsOfLen(StationStats, n) : n \in 0..MaxStations}

EnergyCost(total_energy_wh) == total_energy_wh * energy_rate_per_kwh

DepreciationCost(total_swaps) ==
    (total_swaps * battery_cost_inr * degradation_per_cycle_ppm) \div 1000

\* Variant: the fixed cost is charged once per station, whatever the
\* duration.
LogisticsCostPerStation(nstations, duration_days) ==
    nstations * fixed_cost_per_station_day * 1000

LogisticsCost(nstations, duration_days) ==
    nstations * duration_days * fixed_cost_per_station_day * 1000

AggregateInit ==
    \E sts \in StationStatsLists, days \in {1, 2} :
        call = [fn |-> "_aggregate_results", pc |-> "loop", stations |-> sts,
                duration_days |-> days, k |-> 1, total_swaps |-> 0,
                total_lost |-> 0, total_wait |-> 0, total_energy |-> 0,
                result |-> <<>>]

\* One iteration of the loop over self.stations.
AggregateStation ==
    /\ call.fn = "_aggregate_results" /\ call.pc = "loop"
    /\ call.k <= Len(call.stations)
    /\ LET st == call.stations[call.k]
       IN call' = [call EXCEPT !.k = call.k + 1,
                               !.total_swaps = @ + st.total_swaps,
                               !.total_lost = @ + st.lost_swaps,
                               !.total_wait = @ + st.total_wait_time,
                               !.total_energy = @ + st.total_energy_wh]
    /\ UNCHANGED run_vars

\* From the city-wide aggregates to the SimulationResult.
AggregateReturn ==
    /\ call.fn = "_aggregate_results" /\ call.pc = "loop"
    /\ call.k > Len(call.stations)
    /\ LET duration_hours == call.duration_days * hours_per_day
           energy_cost == EnergyCost(call.total_energy)
           depreciation_cost == DepreciationCost(call.total_swaps)
           logistics_cost == LogisticsCost(Len(call.stations), call.duration_days)
           opex_cost == energy_cost + depreciation_cost + logistics_cost
       IN call' = [call EXCEPT
                      !.pc = "returned",
                      !.result =
                          [city_total_swaps |-> call.total_swaps,
                           city_lost_swaps |-> call.total_lost,
                           city_avg_wait_time |->
                               IF call.total_swaps > 0
                               THEN <<call.total_wait, call.total_swaps>>
                               ELSE <<0, 1>>,
                           city_throughput_per_hour |->
                               IF duration_hours > 0
                               THEN <<call.total_swaps, duration_hours>>
                               ELSE <<0, 1>>,
                           total_energy_wh |-> call.total_energy,
                           estimated_opex_cost |-> opex_cost,
                           opex_breakdown |->
                               [energy_cost |-> energy_cost,
                                depreciation_cost |-> depreciation_cost,
                                logistics_cost |-> logistics_cost,
                                total |-> opex_cost]]]
    /\ UNCHANGED run_vars

\* The fields of a SimulationResult that compare_results reads.
ComparedResults ==
    [city_avg_wait_time : {<<0, 1>>, <<3, 1>>, <<5, 1>>, <<15, 2>>},
     city_lost_swaps : {0, 2},
     city_throughput_per_hour : {<<0, 1>>, <<1, 8>>, <<1, 24>>},
     estimated_opex_cost : {500000, 557000},
     avg_charger_utilization : {<<0, 1>>, <<1, 3>>, <<1, 1>>}]

CompareInit ==
    \E b \in ComparedResults, sc \in ComparedResults :
        call = [fn |-> "compare_results", pc |-> "called", baseline |-> b,
                scenario |-> sc, result |-> <<>>]

\* Variant: the digits after the second decimal are cut off.
RoundDown(num, den) == (num * 100) \div den

\* round(x, 2) of x = num / den with den > 0, in hundredths: the nearest
\* number of hundredths, the even one of two that are equally near.
Round2(num, den) ==
    LET q == (num * 100) \div den
        r == (num * 100) % den
    IN IF 2 * r < den THEN q
       ELSE IF 2 * r > den THEN q + 1
       ELSE IF q % 2 = 0 THEN q ELSE q + 1

\* (scenario - baseline) / baseline * 100 if baseline > 0, else 0.0, as a
\* fraction.
DeltaPct(base, scen) ==
    IF base[1] > 0
    THEN <<(scen[1] * base[2] - base[1] * scen[2]) * 100, scen[2] * base[1]>>
    ELSE <<0, 1>>

CompareResults ==
    /\ call.fn = "compare_results" /\ call.pc = "called"
    /\ LET b == call.baseline
           sc == call.scenario
           wait_time_delta == DeltaPct(b.city_avg_wait_time, sc.city_avg_wait_time)
           throughput_delta == DeltaPct(b.city_throughput_per_hour,
                                        sc.city_throughput_per_hour)
           utilization_delta == DeltaPct(b.avg_charger_utilization,
                                         sc.avg_charger_utilization)
       IN call' = [call EXCEPT
                      !.pc = "returned",
                      !.result =
                          [wait_time_delta_pct |->
                               Round2(wait_time_delta[1], wait_time_delta[2]),
                           lost_swaps_delta |->
                               sc.city_lost_swaps - b.city_lost_swaps,
                           throughput_delta_pct |->
                               Round2(throughput_delta[1], throughput_delta[2]),
                           opex_delta |->
                               sc.estimated_opex_cost - b.estimated_opex_cost,
                           utilization_delta_pct |->
                               Round2(utilization_delta[1],
                                      utilization_delta[2])]]
    /\ UNCHANGED run_vars

ReportInit == Idle /\ (AggregateInit \/ CompareInit)

NextReport ==
    \/ AggregateStation
    \/ AggregateReturn
    \/ CompareResults

SpecReport == ReportInit /\ [][NextReport]_vars

(***************************************************************************)
(* Helpers of the properties.                                              *)
(***************************************************************************)
\* How often x occurs in the sequence sq.
Occurrences(sq, x) == Cardinality({k \in 1..Len(sq) : sq[k] = x})

\* The positions of the log that hold an event of the given type.
EventsOfType(log, type) == {k \in 1..Len(log) : log[k].event_type = type}

\* The positions of the log that process p emitted with the given type.
EventsOf(log, p, type) == {k \in EventsOfType(log, type) : log[k].proc = p}

VehiclesHolding(b) == {i \in 1..Len(vehicles) : vehicles[i].battery = <<b>>}

\* In how many places battery b is: pool, charge queue, a vehicle's swap,
\* the charging loop.
Holders(b) ==
    Occurrences(battery_pool, b) + Occurrences(charge_queue, b)
    + Cardinality(VehiclesHolding(b))
    + (IF chg.battery = <<b>> THEN 1 ELSE 0)

HeldByVehicles == {i \in 1..Len(vehicles) : vehicles[i].battery # <<>>}
HeldByCharging == IF chg.battery # <<>> THEN 1 ELSE 0

(***************************************************************************)
(* C1: battery conservation.  In every reachable state each battery of the *)
(* station is in exactly one of: the pool, the charge queue, held by a     *)
(* vehicle process (between its get and its put), held by the charging     *)
(* loop (between its get and its put); the four counts sum to              *)
(* total_batteries.                                                        *)
(***************************************************************************)
C1_BatteryConservation ==
    /\ DOMAIN batteries = 0..(config.total_batteries - 1)
    /\ \A b \in DOMAIN batteries : Holders(b) = 1
    /\ Len(battery_pool) + Len(charge_queue) + Cardinality(HeldByVehicles)
       + HeldByCharging = config.total_batteries

\* All four places are occupied at once, after a swap and a charge.
C1_Witness ==
    /\ battery_pool # <<>>
    /\ charge_queue # <<>>
    /\ HeldByVehicles # {}
    /\ HeldByCharging = 1
    /\ stats.total_swaps > 0
    /\ EventsOfType(events, "CHARGE_COMPLETE") # {}

(***************************************************************************)
(* C2: a stockout is immediate and definitive.  When the handler of an     *)
(* arriving vehicle runs while the pool holds no swappable battery, the    *)
(* same step logs VEHICLE_ARRIVAL and LOST_SWAP for that vehicle at the    *)
(* same simulated time, adds one to lost_swaps, leaves                     *)
(* current_queue_length at its value before the arrival and leaves         *)
(* total_swaps and the pool unchanged; the vehicle is not parked, and a    *)
(* vehicle with a LOST_SWAP never has a SWAP_START.                        *)
(***************************************************************************)
PoolHasNoSwappable ==
    \A k \in 1..Len(battery_pool) : ~IsSwappable(batteries[battery_pool[k]])

ArrivingAtStockout(i) ==
    /\ Stepping
    /\ head.kind = "init" /\ head.proc = VehProc(i)
    /\ PoolHasNoSwappable

StockoutStep(i) ==
    LET n == Len(events)
    IN /\ Len(events') = n + 2
       /\ SubSeq(events', 1, n) = events
       /\ events'[n + 1].event_type = "VEHICLE_ARRIVAL"
       /\ events'[n + 2].event_type = "LOST_SWAP"
       /\ events'[n + 1].proc = VehProc(i) /\ events'[n + 2].proc = VehProc(i)
       /\ events'[n + 1].entity_id = events'[n + 2].entity_id
       /\ events'[n + 1].time = head.time /\ events'[n + 2].time = head.time
       /\ stats'.lost_swaps = stats.lost_swaps + 1
       /\ stats'.total_swaps = stats.total_swaps
       /\ current_queue_length' = current_queue_length
       /\ battery_pool' = battery_pool
       /\ pool_get_queue' = pool_get_queue

LostNeverServed ==
    \A k \in EventsOfType(events, "LOST_SWAP") :
        /\ EventsOf(events, events[k].proc, "SWAP_START") = {}
        /\ \A j \in EventsOfType(events, "SWAP_START") :
               events[j].entity_id # events[k].entity_id

C2_StockoutImmediate ==
    /\ [][\A i \in 1..Len(vehicles) : ArrivingAtStockout(i) => StockoutStep(i)]_vars
    /\ []LostNeverServed

\* A vehicle was lost, and after it a battery came back and another vehicle
\* started its swap.
C2_Witness ==
    \E k \in EventsOfType(events, "LOST_SWAP") :
        \E j \in EventsOfType(events, "SWAP_START") :
            /\ j > k
            /\ stats.lost_swaps > 0
            /\ current_queue_length > 0

(***************************************************************************)
(* C3: swap events are paired.                                             *)
(***************************************************************************)
Starts(i) == EventsOf(events, VehProc(i), "SWAP_START")
Completes(i) == EventsOf(events, VehProc(i), "SWAP_COMPLETE")

\* Every SWAP_COMPLETE of vehicle i follows a SWAP_START of the same vehicle
\* (same process, same id) logged exactly swap_time_seconds earlier.
CompleteHasStart(i) ==
    \A c \in Completes(i) :
        \E s \in Starts(i) :
            /\ s < c
            /\ events[s].entity_id = events[c].entity_id
            /\ events[c].time - events[s].time = swap_time_seconds

\* C3 as stated: in a finished run every vehicle that has a SWAP_START has
\* exactly one SWAP_COMPLETE and conversely, the two swap_time_seconds
\* apart.
C3_PairedInFinishedRun ==
    phase = "finished" =>
        \A i \in 1..Len(vehicles) :
            /\ Cardinality(Starts(i)) = Cardinality(Completes(i))
            /\ Cardinality(Starts(i)) <= 1
            /\ CompleteHasStart(i)

\* C3, amended: a vehicle has at most one SWAP_START and one SWAP_COMPLETE;
\* every SWAP_COMPLETE has its SWAP_START exactly swap_time_seconds
\* earlier; in a finished run a SWAP_START at time t has its SWAP_COMPLETE
\* if and only if t + swap_time_seconds is before the horizon.
C3_PairedUnlessCutOff ==
    \A i \in 1..Len(vehicles) :
        /\ Cardinality(Starts(i)) <= 1
        /\ Cardinality(Completes(i)) <= 1
        /\ CompleteHasStart(i)
        /\ phase = "finished" =>
               \A s \in Starts(i) :
                   (Completes(i) # {}) <=>
                       (events[s].time + swap_time_seconds
                            < config.duration_days * 86400)

\* A finished run with one swap completed and one cut off by the horizon.
C3_Witness ==
    /\ phase = "finished"
    /\ \E i, j \in 1..Len(vehicles) :
           /\ Starts(i) # {} /\ Completes(i) # {}
           /\ Starts(j) # {} /\ Completes(j) = {}

(***************************************************************************)
(* C4: reproducibility.  Two runs with the same configuration and the same *)
(* random_seed end with identical statistics and with identical event      *)
(* traces: the same sequence of (sim_time, entity_id, event_type, meta).   *)
(***************************************************************************)
Logged(e) ==
    [sim_time |-> e.time, entity_id |-> e.entity_id, event_type |-> e.event_type,
     meta |-> e.meta]

Trace(log) == [k \in 1..Len(log) |-> Logged(log[k])]

SecondRunFinished == run_no = 2 /\ phase = "finished"

C4_Reproducible ==
    SecondRunFinished =>
        /\ stats = prev_run.stats
        /\ Trace(events) = Trace(prev_run.events)

\* What the seed does determine: the statistics, and the trace up to the
\* vehicle ids.
Anonymous(e) ==
    [sim_time |-> e.time, event_type |-> e.event_type, meta |-> e.meta,
     entity_id |-> IF e.entity_id[1] = "vehicle" THEN e.proc ELSE e.entity_id]

C4_SameUpToVehicleIds ==
    SecondRunFinished =>
        /\ stats = prev_run.stats
        /\ [k \in 1..Len(events) |-> Anonymous(events[k])]
           = [k \in 1..Len(prev_run.events) |-> Anonymous(prev_run.events[k])]

(***************************************************************************)
(* C5: the state of charge of every battery is within [0, 100] in every    *)
(* reachable state, and no step decreases a battery's cycle_count.         *)
(***************************************************************************)
SocInRange == \A b \in DOMAIN batteries : batteries[b].soc \in 0..100

CycleCountKept ==
    \A b \in DOMAIN batteries :
        /\ b \in DOMAIN batteries'
        /\ batteries'[b].cycle_count >= batteries[b].cycle_count

C5_SocAndCycles == []SocInRange /\ [][CycleCountKept]_vars

\* A battery has been swapped out twice and charged in between, and one is
\* at the depleted level.
C5_Witness ==
    /\ \E b \in DOMAIN batteries : batteries[b].cycle_count >= 2
    /\ \E b \in DOMAIN batteries : batteries[b].soc = deplete_target_soc
    /\ EventsOfType(events, "CHARGE_COMPLETE") # {}

(***************************************************************************)
(* C6: in every reachable state lost_swaps equals the number of LOST_SWAP  *)
(* events logged for the station, and the only step that changes           *)
(* lost_swaps is an arrival at a stockout, which adds one; swap start,     *)
(* swap completion and charging leave it alone.                            *)
(***************************************************************************)
LostSwapsCounted ==
    stats.lost_swaps = Cardinality(EventsOfType(events, "LOST_SWAP"))

LostSwapsOnlyAtStockout ==
    stats'.lost_swaps # stats.lost_swaps =>
        /\ \E i \in 1..Len(vehicles) : ArrivingAtStockout(i)
        /\ stats'.lost_swaps = stats.lost_swaps + 1

C6_LostSwapsAccounting == []LostSwapsCounted /\ [][LostSwapsOnlyAtStockout]_vars

\* Two vehicles were lost, one was served and a charge has completed.
C6_Witness ==
    /\ stats.lost_swaps >= 2
    /\ stats.total_swaps >= 1
    /\ EventsOfType(events, "CHARGE_COMPLETE") # {}

(***************************************************************************)
(* C7: order of the events of one simulated time.                          *)
(***************************************************************************)
\* C7 as stated: what is scheduled for the same simulated time is resumed
\* in the order in which it was scheduled, i.e. the event about to be
\* processed is the oldest of its time.
C7_FifoAtEqualTime ==
    Stepping =>
        \A k \in 2..Len(queue.heap) :
            queue.heap[k].time = head.time => head.eid < queue.heap[k].eid

\* At position j before position k of the heap: earlier time, or the same
\* time and urgent before regular, or the same time and class and scheduled
\* earlier.
InPopOrder(e, f) ==
    \/ e.time < f.time
    \/ e.time = f.time /\ e.urgent /\ ~f.urgent
    \/ e.time = f.time /\ e.urgent = f.urgent /\ e.eid < f.eid

ArrivalsOf(i) == EventsOf(events, VehProc(i), "VEHICLE_ARRIVAL")

\* C7, amended: events of the same simulated time are processed urgent ones
\* first (the start of a new process, the stop event), then regular ones,
\* and within a class in the order in which they were scheduled; vehicles
\* are handled in the order in which the generator created them.
C7_PriorityThenFifo ==
    /\ \A j, k \in 1..Len(queue.heap) :
           j < k => InPopOrder(queue.heap[j], queue.heap[k])
    /\ \A i, j \in 1..Len(vehicles) :
           \A a \in ArrivalsOf(i) : \A b \in ArrivalsOf(j) :
               i < j => a < b /\ events[a].time <= events[b].time

\* Two vehicles arrive at the same instant at a station with one swappable
\* battery: the first has started its swap, the second is lost.
C7_Witness ==
    /\ Len(vehicles) >= 2
    /\ \E a \in ArrivalsOf(1) : \E b \in ArrivalsOf(2) :
           /\ events[a].time = events[b].time
           /\ events[a].meta.queue_length = 1
    /\ EventsOf(events, VehProc(1), "SWAP_START") # {}
    /\ EventsOf(events, VehProc(2), "LOST_SWAP") # {}

(***************************************************************************)
(* C8: run() drives the queue to the horizon T = duration_days * 86400.    *)
(***************************************************************************)
HorizonT == config.duration_days * 86400

\* C8 as stated: when the run has finished every continuation scheduled for
\* a time <= T has been resumed (none is left on the queue), and none with
\* a time > T has.
C8_AllUpToHorizonResumed ==
    phase = "finished" =>
        /\ \A k \in 1..Len(queue.heap) : queue.heap[k].time > HorizonT
        /\ \A k \in 1..Len(events) : events[k].time <= HorizonT

ProcessedBeforeHorizon ==
    /\ phase = "running" => now < HorizonT
    /\ \A k \in 1..Len(events) : events[k].time < HorizonT
    /\ phase = "finished" =>
           /\ now = HorizonT
           /\ \A k \in 1..Len(queue.heap) : queue.heap[k].time >= HorizonT

\* C8, amended: exactly the continuations scheduled for a time < T are
\* resumed; the clock ends at T; those scheduled for T or later stay on the
\* queue and are never resumed, processing stops at the horizon.
C8_StrictlyBeforeHorizon ==
    /\ []ProcessedBeforeHorizon
    /\ [][phase # "finished"]_vars

\* A finished run that left a continuation scheduled for exactly T, one
\* scheduled later and a vehicle in the middle of its swap.
C8_Witness ==
    /\ phase = "finished"
    /\ \E k \in 1..Len(queue.heap) : queue.heap[k].time = HorizonT
    /\ \E k \in 1..Len(queue.heap) : queue.heap[k].time > HorizonT
    /\ \E i \in 1..Len(vehicles) : vehicles[i].pc = "swapping"

(***************************************************************************)
(* C9: charger capacity is never exceeded.  In every reachable state the   *)
(* number of charger bays held and active_chargers are between 0 and       *)
(* charger_count, and a charger that was acquired is released once the     *)
(* charge has completed: the charging loop holds a bay only between its    *)
(* request and CHARGE_COMPLETE.                                            *)
(***************************************************************************)
HoldingCharger == chg.pc \in {"requesting", "cooling", "charging"}

C9_ChargerCapacity ==
    /\ chargers_users \in 0..config.charger_count
    /\ active_chargers \in 0..config.charger_count
    /\ active_chargers <= chargers_users
    /\ chargers_users = IF HoldingCharger THEN 1 ELSE 0
    /\ active_chargers = IF chg.pc \in {"cooling", "charging"} THEN 1 ELSE 0
    /\ Cardinality(EventsOfType(events, "CHARGE_START"))
       = Cardinality(EventsOfType(events, "CHARGE_COMPLETE"))
         + (IF chg.pc = "charging" THEN 1 ELSE 0)

\* Every bay of the station is held, after an earlier charge was completed
\* and its bay released.
C9_Witness ==
    /\ chargers_users = config.charger_count
    /\ active_chargers = config.charger_count
    /\ EventsOfType(events, "CHARGE_COMPLETE") # {}

(***************************************************************************)
(* C10: a single station with charger_count = k and no arrivals: the       *)
(* batteries initially on the charge queue are all charged and back in the *)
(* pool after (sum of their charge times) / k of simulated time, the k     *)
(* chargers working in parallel on the initial queue.  Taken with no       *)
(* cooldown and with at least k batteries queued, every CHARGE_COMPLETE    *)
(* then has a time of at most that quotient (one second of slack), and a   *)
(* finished run has every battery swappable in the pool.                   *)
(***************************************************************************)
NoArrivals ==
    /\ config.mean_arrival_time_min = 0
    /\ config.demand_curve = ZeroCurve

RECURSIVE SumChargeTimes(_, _)
SumChargeTimes(ids, n) ==
    IF ids = <<>> THEN 0
    ELSE CalculateChargeTime(InitialSoc(Head(ids), n)) + SumChargeTimes(Tail(ids), n)

InitialQueueChargeTime ==
    SumChargeTimes(InitialChargeQueue(config.total_batteries), config.total_batteries)

C10_InitialQueueChargedInParallel ==
    (/\ NoArrivals
     /\ config.cooldown_seconds = 0
     /\ Len(InitialChargeQueue(config.total_batteries)) >= config.charger_count) =>
        /\ \A k \in EventsOfType(events, "CHARGE_COMPLETE") :
               events[k].time * config.charger_count
                   <= InitialQueueChargeTime + config.charger_count
        /\ phase = "finished" =>
               /\ Len(battery_pool) = config.total_batteries
               /\ PoolHasNoSwappable = FALSE
               /\ \A b \in DOMAIN batteries : IsSwappable(batteries[b])

(***************************************************************************)
(* C11: charging is never cancelled.                                       *)
(***************************************************************************)
BatteryIds == 0..(MaxBatteries - 1)

InChargeQueue(b) == b \in DOMAIN batteries /\ Occurrences(charge_queue, b) > 0

ChargedInPool(b) ==
    /\ b \in DOMAIN batteries
    /\ Occurrences(battery_pool, b) > 0
    /\ batteries[b].soc = 100
    /\ batteries[b].status = "AVAILABLE"

\* C11 as stated: every battery put on the charge queue is eventually taken
\* by the charging loop, charged to soc 100, set AVAILABLE and put back
\* into the pool.
C11_QueuedEventuallyCharged ==
    \A b \in BatteryIds : InChargeQueue(b) ~> ChargedInPool(b)

\* A battery leaves the charge queue only into the hands of the charging
\* loop, and leaves the loop only charged and into the pool.
NeverCancelled ==
    \A b \in DOMAIN batteries :
        /\ (InChargeQueue(b) /\ ~InChargeQueue(b)') => chg'.battery = <<b>>
        /\ (chg.battery = <<b>> /\ chg'.battery # <<b>>) => ChargedInPool(b)'

\* C11, amended: charging is never cancelled, and every battery put on the
\* charge queue is eventually back in the pool, charged and AVAILABLE,
\* unless the run reaches its horizon first.
C11_ChargedUnlessRunEnds ==
    /\ [][NeverCancelled]_vars
    /\ \A b \in BatteryIds :
           InChargeQueue(b) ~> (ChargedInPool(b) \/ phase = "finished")

\* A finished run in which one battery was charged and returned and another,
\* handed in by a swap, was not.
C11_Witness ==
    /\ phase = "finished"
    /\ EventsOfType(events, "CHARGE_COMPLETE") # {}
    /\ \E b \in DOMAIN batteries :
           /\ batteries[b].cycle_count >= 1
           /\ ~ChargedInPool(b)
           /\ (InChargeQueue(b) \/ chg.battery = <<b>>)

(***************************************************************************)
(* C12: in every reachable state, the end of the run included,             *)
(* charger_busy_time <= charger_count * horizon, horizon = duration_days * *)
(* 86400 s, so the reported charger utilization is within [0, 1] without   *)
(* the clamp.  It holds because the busy time never exceeds charger_count  *)
(* times the simulated time elapsed, which never exceeds the horizon.      *)
(***************************************************************************)
\* charger_utilization of _aggregate_results before min(1, .), as a
\* fraction <<numerator, denominator>>.
ChargerUtilization ==
    <<stats.charger_busy_time, HorizonT * config.charger_count>>

C12_BusyTimeBounded ==
    /\ stats.charger_busy_time >= 0
    /\ stats.charger_busy_time <= config.charger_count * now
    /\ now <= HorizonT
    /\ stats.charger_busy_time <= config.charger_count * HorizonT
    /\ ChargerUtilization[1] <= ChargerUtilization[2]

\* A finished run in which the charger was busy for two charges.
C12_Witness ==
    /\ phase = "finished"
    /\ Cardinality(EventsOfType(events, "CHARGE_COMPLETE")) >= 2
    /\ stats.charger_busy_time > 0
    /\ config.charger_count = 1

(***************************************************************************)
(* C13: initial population of a station with n = total_batteries.  The     *)
(* batteries with index i < floor(0.8 * n) start AVAILABLE at soc 100 in   *)
(* the pool; every other battery starts at soc 50 + (i mod 5) * 10 with    *)
(* status DEPLETED on the charge queue, in index order; the pool holds     *)
(* floor(0.8 * n) batteries and the charge queue n - floor(0.8 * n).       *)
(***************************************************************************)
Floor80Percent(n) == (8 * n) \div 10

IndexOrdered(sq) == \A j, k \in 1..Len(sq) : j < k => sq[j] < sq[k]

PopulationExceptStatus ==
    LET n == config.total_batteries
    IN /\ DOMAIN batteries = 0..(n - 1)
       /\ \A i \in 0..(n - 1) :
              IF i < Floor80Percent(n)
              THEN /\ batteries[i].soc = 100
                   /\ batteries[i].status = "AVAILABLE"
                   /\ Occurrences(battery_pool, i) = 1
              ELSE /\ batteries[i].soc = 50 + (i % 5) * 10
                   /\ Occurrences(charge_queue, i) = 1
       /\ IndexOrdered(charge_queue)
       /\ IndexOrdered(battery_pool)
       /\ Len(battery_pool) = Floor80Percent(n)
       /\ Len(charge_queue) = n - Floor80Percent(n)

C13_InitialPopulation ==
    phase = "constructed" =>
        /\ PopulationExceptStatus
        /\ \A i \in DOMAIN batteries :
               i >= Floor80Percent(config.total_batteries) =>
                   batteries[i].status = "DEPLETED"

\* What the code does instead: the queued batteries start as CHARGING.
InitialPopulationAsCoded ==
    phase = "constructed" =>
        /\ PopulationExceptStatus
        /\ \A i \in DOMAIN batteries :
               i >= Floor80Percent(config.total_batteries) =>
                   batteries[i].status = "CHARGING"

(***************************************************************************)
(* C14: every status change of every battery during a run is one of        *)
(* AVAILABLE->IN_SWAP, IN_SWAP->DEPLETED, DEPLETED->COOLING (only with     *)
(* cooldown_seconds > 0), DEPLETED->CHARGING (only with cooldown_seconds   *)
(* = 0), COOLING->CHARGING, CHARGING->AVAILABLE; in particular a battery   *)
(* enters the charger only from DEPLETED.                                  *)
(***************************************************************************)
AllowedStatusChanges ==
    {<<"AVAILABLE", "IN_SWAP">>, <<"IN_SWAP", "DEPLETED">>,
     <<"COOLING", "CHARGING">>, <<"CHARGING", "AVAILABLE">>}
    \cup (IF config.cooldown_seconds > 0
          THEN {<<"DEPLETED", "COOLING">>}
          ELSE {<<"DEPLETED", "CHARGING">>})

StatusChangeAllowed ==
    \A b \in DOMAIN batteries :
        (b \in DOMAIN batteries' /\ batteries'[b].status # batteries[b].status) =>
            <<batteries[b].status, batteries'[b].status>> \in AllowedStatusChanges

\* The step in which the charging loop, its request granted, takes its
\* battery into the charger.
EntersCharger(b) ==
    /\ chg.pc = "requesting" /\ chg.battery = <<b>>
    /\ chg'.pc \in {"cooling", "charging"}

EntersChargerFromDepleted ==
    \A b \in DOMAIN batteries : EntersCharger(b) => batteries[b].status = "DEPLETED"

C14_StatusTransitions ==
    /\ [][StatusChangeAllowed]_vars
    /\ [][EntersChargerFromDepleted]_vars

\* What the code does: the claimed transitions, except that a battery of
\* the initial charge queue enters the charger from CHARGING.
InitiallyQueued(b) == batteries[b].cycle_count = 0 /\ batteries[b].status = "CHARGING"

StatusTransitionsAsCoded ==
    /\ [][\A b \in DOMAIN batteries :
            (batteries'[b].status # batteries[b].status) =>
                \/ <<batteries[b].status, batteries'[b].status>> \in AllowedStatusChanges
                \/ /\ InitiallyQueued(b) /\ EntersCharger(b)
                   /\ batteries'[b].status = "COOLING"]_vars
    /\ [][\A b \in DOMAIN batteries :
            EntersCharger(b) =>
                batteries[b].status = "DEPLETED" \/ InitiallyQueued(b)]_vars

(***************************************************************************)
(* C15: charge timing.  After the charging loop acquires a charger at time *)
(* t for a battery with soc s, CHARGE_START is emitted at                  *)
(* t + cooldown_seconds and CHARGE_COMPLETE at t + cooldown_seconds +      *)
(* charge_time, with charge_time = 3600 * ((max(0, 80 - s) / 100 * cap) /  *)
(* p + ((100 - max(s, 80)) / 100 * cap) / (0.5 * p)); the energy added to  *)
(* the total is p * 0.75 * duration / 3600.  For s = 20, cap = 5 kWh,      *)
(* p = 60 kW and no cooldown: 300 s and 3.75 kWh.                          *)
(***************************************************************************)
ChargeTimeFormula(s) ==
    (3600 * capacity_kwh * (Max(0, 80 - s) + 2 * (100 - Max(s, 80))))
        \div (100 * charge_power_kw)

\* The CHARGE_START that a CHARGE_COMPLETE at position c belongs to: the
\* last one of the same battery before it.
StartOfCharge(c) ==
    LET before == {k \in EventsOfType(events, "CHARGE_START") :
                       k < c /\ events[k].entity_id = events[c].entity_id}
    IN CHOOSE k \in before : \A j \in before : j <= k

RECURSIVE SumEnergy(_)
SumEnergy(S) ==
    IF S = {} THEN 0
    ELSE LET k == CHOOSE x \in S : TRUE
         IN events[k].meta.energy_wh + SumEnergy(S \ {k})

C15_ChargeTiming ==
    /\ \A c \in EventsOfType(events, "CHARGE_COMPLETE") :
           LET st == events[StartOfCharge(c)]
               acquired == events[c].time - events[c].meta.duration
               soc == st.meta.initial_soc
           IN /\ st.time = acquired + config.cooldown_seconds
              /\ events[c].time
                 = acquired + config.cooldown_seconds + ChargeTimeFormula(soc)
              /\ 2 * events[c].meta.energy_wh = 25 * events[c].meta.duration
              /\ (soc = 20 /\ config.cooldown_seconds = 0) =>
                     /\ events[c].meta.duration = 300
                     /\ events[c].meta.energy_wh = 3750
    /\ chg.pc = "charging" =>
           \E k \in EventsOfType(events, "CHARGE_START") :
               /\ events[k].entity_id = BatteryEntity(chg.battery[1])
               /\ events[k].time = chg.charge_start + config.cooldown_seconds
    /\ stats.total_energy_wh = SumEnergy(EventsOfType(events, "CHARGE_COMPLETE"))

\* A battery that came back from a swap at soc 20 was charged with no
\* cooldown in 300 s, taking 3.75 kWh.
C15_Witness ==
    \E c \in EventsOfType(events, "CHARGE_COMPLETE") :
        /\ events[StartOfCharge(c)].meta.initial_soc = 20
        /\ config.cooldown_seconds = 0
        /\ events[c].meta.duration = 300
        /\ events[c].meta.energy_wh = 3750
        /\ stats.total_energy_wh >= 3750

(***************************************************************************)
(* C16: the grid power limit is observed only.  GRID_LIMIT_HIT is emitted  *)
(* exactly when a limit is set and active_chargers * charge_power_kw >     *)
(* grid_power_limit_kw at the moment a charger is acquired, and the times  *)
(* of CHARGE_START / CHARGE_COMPLETE and all station stats are the same as *)
(* in the run with no limit set.                                           *)
(***************************************************************************)
LimitExceeded(active) ==
    /\ config.grid_power_limit_kw # <<>>
    /\ active * charge_power_kw > config.grid_power_limit_kw[1]

AcquiresCharger == chg.pc = "requesting" /\ chg'.pc # "requesting"

GridLimitHitExactly ==
    run_no' = run_no =>
        LET old == EventsOfType(events, "GRID_LIMIT_HIT")
            new == EventsOfType(events', "GRID_LIMIT_HIT")
        IN IF AcquiresCharger /\ LimitExceeded(active_chargers')
           THEN /\ old \subseteq new
                /\ Cardinality(new \ old) = 1
                /\ \A k \in new \ old :
                       /\ k = Len(events) + 1
                       /\ events'[k].time = now'
                       /\ events'[k].entity_id = StationEntity
                       /\ events'[k].meta.active_chargers = active_chargers'
           ELSE new = old

ChargeEvents(log) ==
    SelectSeq(Trace(log),
              LAMBDA e : e.event_type \in {"CHARGE_START", "CHARGE_COMPLETE"})

SameAsWithoutLimit ==
    SecondRunFinished =>
        /\ ChargeEvents(events) = ChargeEvents(prev_run.events)
        /\ stats = prev_run.stats

C16_GridLimitObservedOnly ==
    /\ [][GridLimitHitExactly]_vars
    /\ []SameAsWithoutLimit

\* A run in which the limit was hit while a battery was charged and a
\* vehicle served, followed to its end by the run without the limit.
C16_Witness ==
    /\ SecondRunFinished
    /\ config.grid_power_limit_kw = <<>>
    /\ EventsOfType(prev_run.events, "GRID_LIMIT_HIT") # {}
    /\ EventsOfType(prev_run.events, "CHARGE_COMPLETE") # {}
    /\ EventsOfType(events, "GRID_LIMIT_HIT") = {}
    /\ stats.total_swaps > 0

(***************************************************************************)
(* C17: MODIFY_CHARGERS keeps charger_count >= 1.  An intervention with    *)
(* new_count < 1 is rejected as a configuration error by the intervention  *)
(* applier, so no effective StationConfig ever has charger_count < 1 and   *)
(* no station or event is created for such a scenario.                     *)
(***************************************************************************)
ChargersBelowOne(iv) ==
    /\ iv.type = "MODIFY_CHARGERS"
    /\ "new_count" \in DOMAIN iv.parameters
    /\ iv.parameters["new_count"] < 1

NoStationOrEvent ==
    /\ chg.pc = "none"
    /\ DOMAIN batteries = {}
    /\ queue = EmptyQueue
    /\ events = <<>>

C17_ChargersAtLeastOne ==
    /\ config.charger_count >= 1
    /\ (\E k \in 1..Len(scenario) : ChargersBelowOne(scenario[k])) =>
           /\ phase \in {"submitted", "validated", "rejected", "failed"}
           /\ NoStationOrEvent

\* What the code keeps: a Station exists only with charger_count >= 1,
\* because simpy.Resource refuses any other capacity.
StationHasCharger ==
    phase \in {"constructed", "running", "finished"} => config.charger_count >= 1

(***************************************************************************)
(* C18: MODIFY_INVENTORY on an existing station sets total_batteries to    *)
(* max(1, total_batteries + delta) for every integer delta, so every       *)
(* effective station has total_batteries >= 1 and at least one battery is  *)
(* created at station initialisation.                                      *)
(***************************************************************************)
Applied == phase \in {"constructed", "running", "finished", "failed"}

ModifiesInventory(iv) ==
    /\ iv.type = "MODIFY_INVENTORY"
    /\ iv.target_station_id = <<StationEntity[2]>>

RECURSIVE ClampedInventory(_, _)
ClampedInventory(total, ivs) ==
    IF ivs = <<>> THEN total
    ELSE ClampedInventory(IF ModifiesInventory(Head(ivs))
                          THEN Max(1, total + Head(ivs).parameters["delta"])
                          ELSE total,
                          Tail(ivs))

C18_InventoryClamped ==
    Applied =>
        /\ config.total_batteries
           = ClampedInventory(base_stations.total_batteries, scenario)
        /\ config.total_batteries >= 1
        /\ phase # "failed" => DOMAIN batteries # {}

\* What the code computes: the plain sum, and as many batteries.
RECURSIVE SumInventory(_, _)
SumInventory(total, ivs) ==
    IF ivs = <<>> THEN total
    ELSE SumInventory(IF ModifiesInventory(Head(ivs))
                      THEN total + Head(ivs).parameters["delta"]
                      ELSE total,
                      Tail(ivs))

InventoryAsCoded ==
    Applied =>
        /\ config.total_batteries
           = SumInventory(base_stations.total_batteries, scenario)
        /\ phase # "failed" =>
               Cardinality(DOMAIN batteries) = Max(0, config.total_batteries)

(***************************************************************************)
(* C19: a DEMAND_MULTIPLIER intervention with multiplier m multiplies the  *)
(* global demand multiplier: the arrival rate the arrival generator uses   *)
(* at each step is m times the rate it would use for the same config       *)
(* without that intervention.                                              *)
(***************************************************************************)
RECURSIVE ScenarioMultiplier(_)
ScenarioMultiplier(ivs) ==
    IF ivs = <<>> THEN 1
    ELSE (IF Head(ivs).type = "DEMAND_MULTIPLIER"
          THEN Head(ivs).parameters["multiplier"] ELSE 1)
         * ScenarioMultiplier(Tail(ivs))

\* The next step resumes the arrival generator at its loop head.
GeneratorResumes ==
    /\ phase = "running"
    /\ queue.heap # <<>>
    /\ head.proc = GenProc
    /\ gen_pc' # "none"

RateMultiplied ==
    GeneratorResumes =>
        LET plain == StationRate(config, CurrentHour(now'), NumStations)
        IN station_rate'[1] * plain[2]
           = ScenarioMultiplier(scenario) * plain[1] * station_rate'[2]

C19_DemandMultiplied == [][RateMultiplied]_vars

(***************************************************************************)
(* C20: an intervention that lacks a required parameter (ADD_STATION: id,  *)
(* location, charger_count, total_batteries; MODIFY_CHARGERS: new_count;   *)
(* MODIFY_INVENTORY: delta; DEMAND_MULTIPLIER: multiplier) or, for         *)
(* REMOVE_STATION / MODIFY_CHARGERS / MODIFY_INVENTORY / INJECT_FAULT,     *)
(* lacks target_station_id, is rejected with a validation error before any *)
(* station is built or any event is scheduled.                             *)
(***************************************************************************)
Lacks(iv, type, param) == iv.type = type /\ param \notin DOMAIN iv.parameters

LacksRequired(iv) ==
    \/ \E param \in {"id", "location", "charger_count", "total_batteries"} :
           Lacks(iv, "ADD_STATION", param)
    \/ Lacks(iv, "MODIFY_CHARGERS", "new_count")
    \/ Lacks(iv, "MODIFY_INVENTORY", "delta")
    \/ Lacks(iv, "DEMAND_MULTIPLIER", "multiplier")
    \/ /\ iv.type \in {"REMOVE_STATION", "MODIFY_CHARGERS", "MODIFY_INVENTORY",
                       "INJECT_FAULT"}
       /\ iv.target_station_id = <<>>

ScenarioLacksRequired == \E k \in 1..Len(scenario) : LacksRequired(scenario[k])

NeverBuilt ==
    ScenarioLacksRequired =>
        /\ phase \in {"submitted", "rejected"}
        /\ NoStationOrEvent

RejectedAtValidation ==
    (phase = "submitted" /\ ScenarioLacksRequired) => phase' = "rejected"

C20_LackingRejected == []NeverBuilt /\ [][RejectedAtValidation]_vars

\* The request with an ADD_STATION that has no total_batteries, after an
\* intervention that is in order, has been rejected.
C20_Witness ==
    /\ phase = "rejected"
    /\ Len(scenario) = 2
    /\ ~LacksRequired(scenario[1])
    /\ Lacks(scenario[2], "ADD_STATION", "total_batteries")
    /\ NoStationOrEvent

(***************************************************************************)
(* C21: interventions are applied in list order, each to the result of the *)
(* ones before it, and the base station configs passed in are not          *)
(* modified: after k interventions the dict is the fold of the first k     *)
(* over the copy of the base stations; ADD_STATION then REMOVE_STATION of  *)
(* one id leaves it absent, REMOVE_STATION then ADD_STATION leaves it      *)
(* present; the base list is at every step the list that was passed in.    *)
(***************************************************************************)
InLoop ==
    /\ call.fn = "_apply_interventions"
    /\ call.pc \in {"loop", "returned"}
    /\ call.scenario # <<>>

AppliedSoFar == SubSeq(call.scenario[1], 1, call.k - 1)

IsAdd(iv, id) == iv.type = "ADD_STATION" /\ iv.parameters["id"] = id

IsRemove(iv, id) == iv.type = "REMOVE_STATION" /\ iv.target_station_id = <<id>>

C21_FoldInOrderBaseKept ==
    call.fn = "_apply_interventions" =>
        /\ call.base_stations = call.given
        /\ InLoop =>
              /\ call.stations =
                     ApplyInterventions(StationDict(call.given), AppliedSoFar)
              /\ \A id \in StationIds :
                    (/\ Len(AppliedSoFar) = 2
                     /\ IsAdd(AppliedSoFar[1], id)
                     /\ IsRemove(AppliedSoFar[2], id))
                        => id \notin DOMAIN call.stations
              /\ \A id \in StationIds :
                    (/\ Len(AppliedSoFar) = 2
                     /\ IsRemove(AppliedSoFar[1], id)
                     /\ IsAdd(AppliedSoFar[2], id))
                        => id \in DOMAIN call.stations

\* Returned after MODIFY_INVENTORY then REMOVE_STATION of a base station:
\* the station is gone from the result and the base list still has it with
\* its inventory.
C21_Witness ==
    /\ InLoop /\ call.pc = "returned"
    /\ Len(call.scenario[1]) = 2
    /\ \E j \in 1..Len(call.given) :
          /\ call.scenario[1][1].type = "MODIFY_INVENTORY"
          /\ call.scenario[1][1].target_station_id = <<call.given[j].id>>
          /\ IsRemove(call.scenario[1][2], call.given[j].id)
          /\ call.given[j].id \notin DOMAIN call.stations
          /\ call.base_stations[j].total_batteries = 2

(***************************************************************************)
(* C22: REMOVE_STATION, MODIFY_CHARGERS and MODIFY_INVENTORY of a target   *)
(* that is not in the station set leave the set unchanged and the loop     *)
(* goes on; REMOVE_STATION of a present id removes that station and leaves *)
(* the others as they are.                                                 *)
(***************************************************************************)
TargetingTypes == {"REMOVE_STATION", "MODIFY_CHARGERS", "MODIFY_INVENTORY"}

AbsentTargetNoOp ==
    (/\ call.fn = "_apply_interventions" /\ call.pc = "loop"
     /\ call.k <= Len(call.scenario[1])
     /\ call.scenario[1][call.k].type \in TargetingTypes
     /\ call.scenario[1][call.k].target_station_id[1] \notin DOMAIN call.stations)
        => /\ call'.stations = call.stations
           /\ call'.pc = "loop"
           /\ call'.k = call.k + 1

RemoveExactlyTarget ==
    (/\ call.fn = "_apply_interventions" /\ call.pc = "loop"
     /\ call.k <= Len(call.scenario[1])
     /\ call.scenario[1][call.k].type = "REMOVE_STATION"
     /\ call.scenario[1][call.k].target_station_id[1] \in DOMAIN call.stations)
        => /\ DOMAIN call'.stations =
                 DOMAIN call.stations
                     \ {call.scenario[1][call.k].target_station_id[1]}
           /\ \A id \in DOMAIN call'.stations :
                 call'.stations[id] = call.stations[id]
           /\ call'.pc = "loop"

C22_AbsentTargetIgnored == [][AbsentTargetNoOp /\ RemoveExactlyTarget]_vars

\* A MODIFY_CHARGERS of an id that no station has was applied and the dict is
\* the copy of the base stations, and a REMOVE_STATION of a station of a
\* two-station base list was applied before it.
C22_Witness ==
    /\ InLoop /\ call.k = 3
    /\ Len(call.given) = 2
    /\ AppliedSoFar[1].type = "REMOVE_STATION"
    /\ AppliedSoFar[1].target_station_id[1] \in DOMAIN StationDict(call.given)
    /\ AppliedSoFar[2].type = "MODIFY_CHARGERS"
    /\ AppliedSoFar[2].target_station_id = AppliedSoFar[1].target_station_id
    /\ Cardinality(DOMAIN call.stations) = 1
    /\ \A id \in DOMAIN call.stations :
          call.stations[id] = StationDict(call.given)[id]

(***************************************************************************)
(* C23: station ids are unique: a station list with two equal ids is       *)
(* rejected and never reaches the applier, and the effective station list  *)
(* never holds two stations of one id, whatever interventions are applied, *)
(* an ADD_STATION of an id that is present included.                       *)
(***************************************************************************)
HasEqualIds(v) == \E i, j \in 1..Len(v) : i # j /\ v[i].id = v[j].id

\* The ids of the list the applier returns (or would return at this point
\* of its loop) are pairwise different.
EffectiveIdsUnique ==
    IF call.scenario = <<>>
    THEN ~HasEqualIds(call.base_stations)
    ELSE \A a, b \in DOMAIN call.stations :
            a # b => call.stations[a].id # call.stations[b].id

C23_StationIdsUnique ==
    call.fn = "_apply_interventions" =>
        /\ HasEqualIds(call.given) => call.pc \in {"submitted", "rejected"}
        /\ (call.pc = "rejected") => HasEqualIds(call.given)
        /\ call.pc \in {"loop", "returned"} => EffectiveIdsUnique

\* Returned after an ADD_STATION of the id of a base station: one station of
\* that id, the added one.
C23_Witness ==
    /\ InLoop /\ call.pc = "returned"
    /\ Len(call.scenario[1]) >= 1
    /\ \E j \in 1..Len(call.given) :
          /\ IsAdd(call.scenario[1][Len(call.scenario[1])], call.given[j].id)
          /\ call.stations[call.given[j].id].total_batteries = MaxBatteries
          /\ call.stations[call.given[j].id] # call.given[j]

\* A station list with two equal ids has been rejected.
C23_WitnessRejected ==
    /\ call.fn = "_apply_interventions" /\ call.pc = "rejected"
    /\ HasEqualIds(call.given)

(***************************************************************************)
(* C24: with an all-zero demand curve no vehicle ever arrives: the arrival *)
(* generator only sleeps an hour at a time, no VEHICLE_ARRIVAL is emitted  *)
(* and total_swaps = lost_swaps = 0 up to the end of the run.              *)
(***************************************************************************)
GeneratorOnlySleeps ==
    /\ gen_pc \in {"none", "sleep"}
    /\ vehicles = <<>>
    /\ EventsOfType(events, "VEHICLE_ARRIVAL") = {}
    /\ stats.total_swaps = 0
    /\ stats.lost_swaps = 0

C24_ZeroCurveNoArrival == config.demand_curve = ZeroCurve => GeneratorOnlySleeps

\* What the code keeps: the generator only sleeps when the curve is all zero
\* and load_real_network has supplied no positive mean, which it does
\* whenever it finds no station data.
NoArrivalWithoutMean == NoDemand(config) => GeneratorOnlySleeps

(***************************************************************************)
(* C25: with a mean_arrival_time_min > 0 from the real-network loader the  *)
(* station rate is 60 / mean times demand_multiplier times the adjustment  *)
(* of the hour and is not divided by the number of stations N; with no     *)
(* such mean it is the curve's rate of the hour times demand_multiplier    *)
(* times the adjustment, divided by N.                                     *)
(***************************************************************************)
AdjustmentOfHour ==
    IF call.current_hour \in DOMAIN call.scenario_adjustments
    THEN call.scenario_adjustments[call.current_hour]
    ELSE <<1, 1>>

\* The fraction r equals num / den.
RateIs(r, num, den) == r[2] # 0 /\ den # 0 /\ r[1] * den = num * r[2]

KpiChargerUtilization ==
    LET max_charger_time == HorizonT * config.charger_count
    IN IF max_charger_time > 0
       THEN IF stats.charger_busy_time >= max_charger_time THEN <<1, 1>>
            ELSE <<stats.charger_busy_time, max_charger_time>>
       ELSE <<0, 1>>

\* idle_inventory_pct of the StationKPI, as a fraction.
KpiIdleInventoryPct ==
    IF config.total_batteries > 0
    THEN <<AvailableCount(battery_pool, batteries) * 100, config.total_batteries>>
    ELSE <<0, 1>>

\* 0 <= r <= bound for a fraction r with a positive denominator.
FractionWithin(r, bound) == r[2] > 0 /\ r[1] >= 0 /\ r[1] <= bound * r[2]

KpisInRange ==
    /\ FractionWithin(KpiChargerUtilization, 1)
    /\ FractionWithin(KpiIdleInventoryPct, 100)

C26_ValidConfigCompletes ==
    /\ phase # "failed"
    /\ phase = "finished" => KpisInRange

\* What the code keeps: a run that has been constructed ends with KPIs in
\* range; the error of a validated config arises in the constructor.
CompletedKpisInRange == phase = "finished" => KpisInRange

(***************************************************************************)
(* C27: city_total_swaps and city_lost_swaps are the sums of the stations' *)
(* total_swaps and lost_swaps; depreciation_cost = 25 * city_total_swaps,  *)
(* logistics_cost = 500 * number of stations * duration_days, energy_cost  *)
(* = 8 * total_energy_kwh, and opex_breakdown.total = estimated_opex_cost  *)
(* = the sum of the three.                                                 *)
(***************************************************************************)
RECURSIVE SumField(_, _)
SumField(sts, field) ==
    IF sts = <<>> THEN 0 ELSE Head(sts)[field] + SumField(Tail(sts), field)

Aggregated == call.fn = "_aggregate_results" /\ call.pc = "returned"

C27_Aggregation ==
    Aggregated =>
        LET res == call.result
            opex == res.opex_breakdown
        IN /\ res.city_total_swaps = SumField(call.stations, "total_swaps")
           /\ res.city_lost_swaps = SumField(call.stations, "lost_swaps")
           /\ res.total_energy_wh = SumField(call.stations, "total_energy_wh")
           /\ opex.depreciation_cost = 25 * 1000 * res.city_total_swaps
           /\ opex.logistics_cost
                 = 500 * 1000 * Len(call.stations) * call.duration_days
           /\ opex.energy_cost = 8 * res.total_energy_wh
           /\ opex.total = res.estimated_opex_cost
           /\ opex.total = opex.energy_cost + opex.depreciation_cost
                             + opex.logistics_cost

\* Two stations over two days with 3 + 1 swaps, 0 + 2 lost swaps and
\* 12.25 + 4 kWh: 130 + 100 + 2000 = 2230 rupees.
C27_Witness ==
    /\ Aggregated
    /\ Len(call.stations) = 2 /\ call.duration_days = 2
    /\ call.stations[1].total_swaps = 3 /\ call.stations[2].total_swaps = 1
    /\ call.result.city_total_swaps = 4
    /\ call.result.city_lost_swaps = 2
    /\ call.result.estimated_opex_cost = 2230 * 1000

(***************************************************************************)
(* C28: compare_results: lost_swaps_delta and opex_delta are the signed    *)
(* differences scenario - baseline; each percentage delta (wait time,      *)
(* throughput, utilization) is (scenario - baseline) / baseline * 100 and  *)
(* is 0 whenever the baseline value is 0.                                  *)
(***************************************************************************)
Compared == call.fn = "compare_results" /\ call.pc = "returned"

SignedDifferences ==
    /\ call.result.lost_swaps_delta
         = call.scenario.city_lost_swaps - call.baseline.city_lost_swaps
    /\ call.result.opex_delta
         = call.scenario.estimated_opex_cost - call.baseline.estimated_opex_cost

\* The reported number of hundredths of a percent is exactly
\* (scen - base) / base * 100, or 0 with a zero baseline.
ExactPct(hundredths, base, scen) ==
    IF base[1] = 0 THEN hundredths = 0
    ELSE hundredths * scen[2] * base[1]
           = (scen[1] * base[2] - base[1] * scen[2]) * 100 * 100

\* The reported number of hundredths is one nearest to
\* (scen - base) / base * 100, or 0 with a zero baseline.
RoundedPct(hundredths, base, scen) ==
    IF base[1] = 0 THEN hundredths = 0
    ELSE LET den == scen[2] * base[1]
             off == hundredths * den
                      - (scen[1] * base[2] - base[1] * scen[2]) * 100 * 100
         IN /\ 2 * off <= den
            /\ 2 * off >= -den

C28_ExactPercentage ==
    Compared =>
        /\ SignedDifferences
        /\ ExactPct(call.result.wait_time_delta_pct,
                    call.baseline.city_avg_wait_time,
                    call.scenario.city_avg_wait_time)
        /\ ExactPct(call.result.throughput_delta_pct,
                    call.baseline.city_throughput_per_hour,
                    call.scenario.city_throughput_per_hour)
        /\ ExactPct(call.result.utilization_delta_pct,
                    call.baseline.avg_charger_utilization,
                    call.scenario.avg_charger_utilization)

\* C28, amended: the percentage deltas are rounded to two decimals.
C28_RoundedPercentage ==
    Compared =>
        /\ SignedDifferences
        /\ RoundedPct(call.result.wait_time_delta_pct,
                      call.baseline.city_avg_wait_time,
                      call.scenario.city_avg_wait_time)
        /\ RoundedPct(call.result.throughput_delta_pct,
                      call.baseline.city_throughput_per_hour,
                      call.scenario.city_throughput_per_hour)
        /\ RoundedPct(call.result.utilization_delta_pct,
                      call.baseline.avg_charger_utilization,
                      call.scenario.avg_charger_utilization)

\* Wait time 3 s against 5 s reported as 66.67 percent, throughput 1/8
\* against 1/24 as -66.67 percent, a zero baseline utilization as 0, two
\* lost swaps fewer and 57 rupees more.
C28_Witness ==
    /\ Compared
    /\ call.baseline.city_avg_wait_time = <<3, 1>>
    /\ call.scenario.city_avg_wait_time = <<5, 1>>
    /\ call.result.wait_time_delta_pct = 6667
    /\ call.baseline.city_throughput_per_hour = <<1, 8>>
    /\ call.scenario.city_throughput_per_hour = <<1, 24>>
    /\ call.result.throughput_delta_pct = -6667
    /\ call.baseline.avg_charger_utilization = <<0, 1>>
    /\ call.scenario.avg_charger_utilization = <<1, 3>>
    /\ call.result.utilization_delta_pct = 0
    /\ call.result.lost_swaps_delta = -2
    /\ call.result.opex_delta = 57000

(***************************************************************************)
(* C29: of two runs with the same config and seed that differ only in      *)
(* demand_multiplier, m1 <= m2, the run with m2 has a city_total_swaps +   *)
(* city_lost_swaps that is at least that of the run with m1.               *)
(***************************************************************************)
C29_DemandMonotone ==
    SecondRunFinished =>
        stats.total_swaps + stats.lost_swaps
            >= prev_run.stats.total_swaps + prev_run.stats.lost_swaps

\* What the code keeps: the run with the larger multiplier has at least as
\* many arrivals; a vehicle whose swap is under way at the horizon is in
\* neither counter.
ArrivalsMonotone ==
    SecondRunFinished =>
        Cardinality(EventsOfType(events, "VEHICLE_ARRIVAL"))
            >= Cardinality(EventsOfType(prev_run.events, "VEHICLE_ARRIVAL"))

(***************************************************************************)
(* C30: puts never suspend: no other process runs between the swap         *)
(* handler's SWAP_COMPLETE, deplete and put and its total_swaps += 1 and   *)
(* current_queue_length -= 1, so an arrival at the same instant never      *)
(* observes a queue_length that still counts the finished vehicle: the     *)
(* queue_length of every VEHICLE_ARRIVAL is one more than the number of    *)
(* vehicles that had arrived and had neither been lost nor completed their *)
(* swap.                                                                   *)
(***************************************************************************)
VehicleProcs == {VehProc(i) : i \in 1..Len(vehicles)}

\* Process p has logged an event of that type before position k.
LoggedBefore(p, type, k) == \E j \in EventsOf(events, p, type) : j < k

\* The vehicles in the station just before position k of the log: arrived,
\* not lost, swap not complete.
InStationBefore(k) ==
    {p \in VehicleProcs :
        /\ LoggedBefore(p, "VEHICLE_ARRIVAL", k)
        /\ ~LoggedBefore(p, "LOST_SWAP", k)
        /\ ~LoggedBefore(p, "SWAP_COMPLETE", k)}

C30_FinishedVehicleNotCounted ==
    \A k \in EventsOfType(events, "VEHICLE_ARRIVAL") :
        events[k].meta.queue_length = 1 + Cardinality(InStationBefore(k))

\* What the code keeps: the handler resumes from its put at the instant of
\* its SWAP_COMPLETE, after the events of that instant that were scheduled
\* before the put.
PutResumesAtSameInstant ==
    \A i \in 1..Len(vehicles) :
        vehicles[i].pc = "putting" =>
            \E k \in EventsOf(events, VehProc(i), "SWAP_COMPLETE") :
                events[k].time = now

(***************************************************************************)
(* C31: every battery handed to a vehicle is swappable and exclusive: at   *)
(* each SWAP_START the claimed battery had status AVAILABLE and soc >=     *)
(* min_swap_soc and was out of the pool, and no battery is held by two     *)
(* vehicles at once: between a battery's SWAP_START and its next           *)
(* CHARGE_COMPLETE there is no other SWAP_START of that battery.           *)
(***************************************************************************)
\* The step appends one event of that type to the log.
Emits(type) ==
    /\ Len(events') = Len(events) + 1
    /\ events'[Len(events')].event_type = type

SwapStartsWithSwappable ==
    Emits("SWAP_START") =>
        LET e == events'[Len(events')]
            b == e.meta.battery_id
        IN /\ batteries[b].status = "AVAILABLE"
           /\ batteries[b].soc >= min_swap_soc
           /\ e.meta.battery_soc = batteries[b].soc
           /\ Occurrences(battery_pool, b) = 0
           /\ Occurrences(battery_pool', b) = 0
           /\ batteries'[b].status = "IN_SWAP"

SwapStartsOf(b) ==
    {k \in EventsOfType(events, "SWAP_START") : events[k].meta.battery_id = b}

ChargeCompletesOf(b) ==
    {k \in EventsOfType(events, "CHARGE_COMPLETE") :
        events[k].entity_id = BatteryEntity(b)}

HandedOutExclusively ==
    \A b \in DOMAIN batteries :
        /\ Cardinality(VehiclesHolding(b)) <= 1
        /\ \A j, k \in SwapStartsOf(b) :
              j < k => \E c \in ChargeCompletesOf(b) : j < c /\ c < k

C31_SwappableAndExclusive ==
    []HandedOutExclusively /\ [][SwapStartsWithSwappable]_vars

\* One battery has been handed out twice, with its charge in between, and
\* is held by the second vehicle.
C31_Witness ==
    \E b \in DOMAIN batteries :
        /\ Cardinality(SwapStartsOf(b)) = 2
        /\ Cardinality(VehiclesHolding(b)) = 1
        /\ batteries[b].status = "IN_SWAP"

(***************************************************************************)
(* C32: the charge queue is FIFO: batteries start charging (CHARGE_START)  *)
(* in the order in which they were put on the charge queue, the batteries  *)
(* initially on it first, in index order, then the swapped batteries in    *)
(* the order of their SWAP_COMPLETE.                                       *)
(***************************************************************************)
IsSwapComplete(e) == e.event_type = "SWAP_COMPLETE"
IsChargeStart(e) == e.event_type = "CHARGE_START"

\* The batteries in the order in which they were put on the charge queue.
PutOrder ==
    LET swapped == SelectSeq(events, IsSwapComplete)
    IN InitialChargeQueue(config.total_batteries)
       \o [k \in 1..Len(swapped) |-> swapped[k].meta.battery_id]

\* The batteries in the order of their CHARGE_START.
StartOrder ==
    LET started == SelectSeq(events, IsChargeStart)
    IN [k \in 1..Len(started) |-> started[k].entity_id[2]]

C32_ChargeQueueFifo ==
    /\ Len(StartOrder) <= Len(PutOrder)
    /\ StartOrder = SubSeq(PutOrder, 1, Len(StartOrder))

\* Two batteries were on the queue initially and a swapped one joined them
\* before the second started: all three have started, in that order.
C32_Witness ==
    /\ Len(InitialChargeQueue(config.total_batteries)) = 2
    /\ Len(StartOrder) = 3
    /\ StartOrder = SubSeq(PutOrder, 1, 3)
    /\ \E j \in EventsOfType(events, "SWAP_COMPLETE") :
          \E k \in EventsOfType(events, "CHARGE_START") :
             /\ j < k
             /\ events[k].entity_id[2] = StartOrder[2]

(***************************************************************************)
(* C33: each completed charge adds the same duration, now - charge_start   *)
(* (the cooldown included), to total_charge_time and charger_busy_time, so *)
(* the two are equal in every reachable state, and adds charge_power_kw *  *)
(* 0.75 * duration / 3600 to total_energy_kwh, so total_energy_kwh =       *)
(* charge_power_kw * 0.75 * charger_busy_time / 3600; all three never      *)
(* decrease and change only at CHARGE_COMPLETE.                            *)
(***************************************************************************)
ChargingStatsConsistent ==
    /\ stats.total_charge_time = stats.charger_busy_time
    /\ stats.total_energy_wh * seconds_per_hour * 4
         = charge_power_kw * 1000 * 3 * stats.charger_busy_time

ChargingStatsOf(st) ==
    <<st.total_charge_time, st.charger_busy_time, st.total_energy_wh>>

ChargingStatsStep ==
    /\ stats'.total_charge_time >= stats.total_charge_time
    /\ stats'.charger_busy_time >= stats.charger_busy_time
    /\ stats'.total_energy_wh >= stats.total_energy_wh
    /\ ChargingStatsOf(stats') # ChargingStatsOf(stats) => Emits("CHARGE_COMPLETE")
    /\ Emits("CHARGE_COMPLETE") =>
          LET duration == now' - chg.charge_start
          IN /\ duration >= config.cooldown_seconds
             /\ events'[Len(events')].meta.duration = duration
             /\ stats'.total_charge_time = stats.total_charge_time + duration
             /\ stats'.charger_busy_time = stats.charger_busy_time + duration
             /\ (stats'.total_energy_wh - stats.total_energy_wh)
                     * seconds_per_hour * 4
                  = charge_power_kw * 1000 * 3 * duration

C33_ChargingStats == []ChargingStatsConsistent /\ [][ChargingStatsStep]_vars

\* Two charges with a cooldown each have completed.
C33_Witness ==
    /\ config.cooldown_seconds > 0
    /\ Cardinality(EventsOfType(events, "CHARGE_COMPLETE")) = 2
    /\ stats.charger_busy_time > 2 * config.cooldown_seconds
    /\ stats.total_energy_wh > 0

(***************************************************************************)
(* C34: in every reachable state 0 <= current_queue_length <=              *)
(* peak_queue_length; peak_queue_length never decreases; the queue_length  *)
(* of each VEHICLE_ARRIVAL event is the value after counting the arriving  *)
(* vehicle (>= 1); every handled vehicle decrements current_queue_length   *)
(* exactly once, on stockout or after its swap completes.                  *)
(***************************************************************************)
InStation(i) == vehicles[i].pc \in {"parked", "getting", "swapping", "putting"}

Departed(i) == vehicles[i].pc \in {"lost", "done"}

QueueCountersInRange ==
    /\ 0 <= current_queue_length
    /\ current_queue_length <= stats.peak_queue_length
    /\ current_queue_length = Cardinality({i \in DOMAIN vehicles : InStation(i)})

NewEvents == {events'[k] : k \in (Len(events) + 1)..Len(events')}

QueueCountersStep ==
    /\ stats'.peak_queue_length >= stats.peak_queue_length
    /\ \A e \in NewEvents :
          e.event_type = "VEHICLE_ARRIVAL" =>
             /\ e.meta.queue_length = current_queue_length + 1
             /\ e.meta.queue_length >= 1
             /\ stats'.peak_queue_length >= e.meta.queue_length
    /\ \A i \in DOMAIN vehicles :
          \* a departed vehicle never touches the counter again
          /\ i \in DOMAIN vehicles' /\ Departed(i)' =>
                \/ Departed(i)
                \/ /\ current_queue_length'
                        = current_queue_length - (IF InStation(i) THEN 1 ELSE 0)
                   /\ \A j \in DOMAIN vehicles \ {i} :
                         vehicles'[j].pc = vehicles[j].pc
    /\ current_queue_length' < current_queue_length =>
          \E i \in DOMAIN vehicles : InStation(i) /\ vehicles'[i].pc = "done"

C34_QueueCounters == []QueueCountersInRange /\ [][QueueCountersStep]_vars

\* One vehicle was lost on stockout and one has left after its swap while
\* a third is still in the station below the peak.
C34_Witness ==
    /\ \E i \in DOMAIN vehicles : vehicles[i].pc = "lost"
    /\ \E i \in DOMAIN vehicles : vehicles[i].pc = "done"
    /\ current_queue_length = 1
    /\ stats.peak_queue_length = 2

(***************************************************************************)
(* The telemetry sink as Python objects.  self.events is a list of         *)
(* references to event dictionaries: call.heap holds the dictionaries,     *)
(* call.events the references of the sink in emission order, call.returned *)
(* the list a caller got from get_events.  list.copy() makes a new list of *)
(* the same references.                                                    *)
(***************************************************************************)
MaxSinkEvents == 2

SinkTimes == {0, 60}

SinkTypes == {"VEHICLE_ARRIVAL", "LOST_SWAP"}

EventDict(t, type) == [time |-> t, event_type |-> type]

SinkInit ==
    /\ Idle
    /\ call = [fn |-> "get_events", pc |-> "running", heap |-> <<>>,
               events |-> <<>>, returned |-> <<>>]

\* The events of the sink, each reference followed to its dictionary.
SinkContents(c) == [k \in 1..Len(c.events) |-> c.heap[c.events[k]]]

\* log_event: a new dictionary with time env.now, appended to self.events.
SinkLogEvent ==
    /\ call.fn = "get_events" /\ call.pc = "running"
    /\ Len(call.events) < MaxSinkEvents
    /\ \E t \in SinkTimes, type \in SinkTypes :
          /\ \A k \in 1..Len(call.events) : call.heap[call.events[k]].time <= t
          /\ call' = [call EXCEPT
                         !.heap = Append(@, EventDict(t, type)),
                         !.events = Append(@, Len(call.heap) + 1)]
    /\ UNCHANGED run_vars

\* self.events.copy(): a new list, the same dictionaries.
ListCopy(c) == [c EXCEPT !.returned = c.events]

\* get_events
GetEvents ==
    /\ call.fn = "get_events" /\ call.pc = "running"
    /\ call' = [ListCopy(call) EXCEPT !.pc = "returned"]
    /\ UNCHANGED run_vars

\* The caller appends a dictionary of its own to the returned list.
ReturnedAppend ==
    /\ call.fn = "get_events" /\ call.pc = "returned"
    /\ \E t \in SinkTimes, type \in SinkTypes :
          call' = [call EXCEPT !.pc = "modified",
                               !.heap = Append(@, EventDict(t, type)),
                               !.returned = Append(@, Len(call.heap) + 1)]
    /\ UNCHANGED run_vars

\* The caller deletes an entry of the returned list.
ReturnedDelete ==
    /\ call.fn = "get_events" /\ call.pc = "returned"
    /\ \E k \in 1..Len(call.returned) :
          call' = [call EXCEPT
                     !.pc = "modified",
                     !.returned = SubSeq(@, 1, k - 1) \o SubSeq(@, k + 1, Len(@))]
    /\ UNCHANGED run_vars

\* The caller assigns to a key of an event of the returned list.
ReturnedEventAssign ==
    /\ call.fn = "get_events" /\ call.pc = "returned"
    /\ \E k \in 1..Len(call.returned), t \in SinkTimes :
          /\ call.heap[call.returned[k]].time # t
          /\ call' = [call EXCEPT !.pc = "modified",
                                  !.heap[call.returned[k]].time = t]
    /\ UNCHANGED run_vars

NextSink ==
    \/ SinkLogEvent
    \/ GetEvents
    \/ ReturnedAppend
    \/ ReturnedDelete
    \/ ReturnedEventAssign

SpecSink == SinkInit /\ [][NextSink]_vars

(***************************************************************************)
(* C35: the telemetry sink is append-only and time-ordered: during a run   *)
(* the event list only grows at its end (no event is removed or            *)
(* rewritten), the recorded times are non-decreasing in emission order and *)
(* never exceed the horizon, and get_events returns a copy whose           *)
(* modification does not change the sink.                                  *)
(***************************************************************************)
IsPrefix(s, t) == Len(s) <= Len(t) /\ s = SubSeq(t, 1, Len(s))

TimesNonDecreasing(log) ==
    \A j, k \in 1..Len(log) : j <= k => log[j].time <= log[k].time

SinkKept ==
    /\ IsPrefix(SinkContents(call), SinkContents(call'))
    /\ TimesNonDecreasing(SinkContents(call'))
    /\ call.pc = "returned" => SinkContents(call') = SinkContents(call)

C35_SinkAppendOnly == [][SinkKept]_vars

\* During a run the log only grows at its end, in time order, below the
\* horizon.
RunLogKept ==
    /\ run_no' = run_no => IsPrefix(events, events')
    /\ TimesNonDecreasing(events')
    /\ \A k \in 1..Len(events') : events'[k].time <= HorizonT

RunLogAppendOnly == [][RunLogKept]_vars

\* Changing the returned list itself, by append or delete, leaves the sink
\* alone.
ReturnedListOwn ==
    /\ call.pc = "returned"
    /\ SubSeq(call'.heap, 1, Len(call.heap)) = call.heap
    => SinkContents(call') = SinkContents(call)

ReturnedListIsACopy == [][ReturnedListOwn]_vars

(***************************************************************************)
(* C36: no vehicle ever waits for a battery: the get of a vehicle that     *)
(* passed the stockout check is satisfied at its arrival time, so every    *)
(* SWAP_START has the sim-time of that vehicle's VEHICLE_ARRIVAL with      *)
(* wait_time = 0, no getter is ever parked on the pool, and                *)
(* total_wait_time = max_wait_time = 0 in every reachable state.           *)
(***************************************************************************)
ArrivalOf(k) ==
    {a \in EventsOfType(events, "VEHICLE_ARRIVAL") :
        events[a].entity_id = events[k].entity_id}

NoVehicleWaits ==
    /\ pool_get_queue = <<>>
    /\ \A i \in DOMAIN vehicles : vehicles[i].pc # "parked"
    /\ stats.total_wait_time = 0
    /\ stats.max_wait_time = 0
    /\ \A k \in EventsOfType(events, "SWAP_START") :
          /\ events[k].meta.wait_time = 0
          /\ ArrivalOf(k) # {}
          /\ \A a \in ArrivalOf(k) : a < k /\ events[a].time = events[k].time
    /\ \A i \in DOMAIN vehicles :
          vehicles[i].pc = "getting" => vehicles[i].arrival_time = now

C36_NoVehicleWaits == NoVehicleWaits

\* A vehicle that arrived after a charge had completed and a vehicle had
\* been lost has started its swap.
C36_Witness ==
    \E k \in EventsOfType(events, "SWAP_START") :
       /\ events[k].time > 0
       /\ \E c \in EventsOfType(events, "CHARGE_COMPLETE") : c < k
       /\ \E l \in EventsOfType(events, "LOST_SWAP") : l < k

(***************************************************************************)
(* C37: at most one battery of a station is with the charger at any time,  *)
(* whatever charger_count is: the single charging loop takes the next      *)
(* battery only after the previous one was put back in the pool, so        *)
(* active_chargers <= 1 in every reachable state and the CHARGE_START of a *)
(* battery never precedes the CHARGE_COMPLETE of the battery taken before  *)
(* it.                                                                     *)
(***************************************************************************)
Before(positions, k) == {j \in positions : j < k}

OneBatteryWithCharger ==
    /\ active_chargers \in {0, 1}
    /\ active_chargers <= chargers_users
    /\ chargers_users <= 1
    /\ Len(chg.battery) <= 1
    /\ active_chargers = 1 <=> chg.pc \in {"cooling", "charging"}
    /\ Cardinality({b \in DOMAIN batteries : batteries[b].status = "COOLING"})
          <= 1
    /\ \A k \in EventsOfType(events, "CHARGE_START") :
          Cardinality(Before(EventsOfType(events, "CHARGE_COMPLETE"), k))
             = Cardinality(Before(EventsOfType(events, "CHARGE_START"), k))

ArrivalsAccounted ==
    Cardinality(EventsOfType(events, "VEHICLE_ARRIVAL"))
       = stats.total_swaps + stats.lost_swaps + current_queue_length

\* The vehicles whose SWAP_START is logged and whose swap is not counted.
StartedNotCounted ==
    {i \in DOMAIN vehicles :
        /\ EventsOf(events, VehProc(i), "SWAP_START") # {}
        /\ vehicles[i].pc # "done"}

\* The vehicles that took a battery on arrival and wait for their get
\* event to be processed.
TakenNotStarted == {i \in DOMAIN vehicles : vehicles[i].pc = "getting"}

\* As stated: the counter is the number of started, uncounted swaps.
C38_ArrivalAccounting ==
    /\ ArrivalsAccounted
    /\ current_queue_length = Cardinality(StartedNotCounted)

\* C38, amended: the counter is the number of vehicles that passed the
\* stockout check and are not counted yet; it also holds the vehicles that
\* took their battery in this very instant and have not logged SWAP_START.
C38_ArrivalAccountingFromCheck ==
    /\ ArrivalsAccounted
    /\ current_queue_length
          = Cardinality(StartedNotCounted) + Cardinality(TakenNotStarted)
    /\ StartedNotCounted \cap TakenNotStarted = {}
    /\ \A i \in TakenNotStarted :
          /\ vehicles[i].arrival_time = now
          /\ Len(vehicles[i].battery) = 1
          /\ EventsOf(events, VehProc(i), "VEHICLE_ARRIVAL") # {}

\* A second vehicle has arrived and reported queue_length 2 while the
\* first, of the same instant, has not logged its SWAP_START.
C38_Witness ==
    \E i \in TakenNotStarted, k \in EventsOfType(events, "VEHICLE_ARRIVAL") :
       /\ events[k].proc # VehProc(i)
       /\ \A a \in EventsOf(events, VehProc(i), "VEHICLE_ARRIVAL") : a < k
       /\ events[k].meta.queue_length = 2
       /\ StartedNotCounted = {}

(***************************************************************************)
(* C39: the pool holds only swappable batteries: in every reachable state  *)
(* every battery in battery_pool has status AVAILABLE and soc = 100 >=     *)
(* min_swap_soc, so a stockout is declared exactly when the pool is empty  *)
(* and get_available_battery_count equals the pool size (and never exceeds *)
(* total_batteries).                                                       *)
(***************************************************************************)
PoolOnlySwappable ==
    /\ \A k \in 1..Len(battery_pool) :
          LET b == batteries[battery_pool[k]]
          IN /\ b.status = "AVAILABLE"
             /\ b.soc = full_soc
             /\ b.soc >= min_swap_soc
             /\ IsSwappable(b)
    /\ AvailableCount(battery_pool, batteries) = Len(battery_pool)
    /\ Len(battery_pool) <= config.total_batteries

HasNew(type) == \E e \in NewEvents : e.event_type = type

StockoutIffPoolEmpty ==
    HasNew("VEHICLE_ARRIVAL") => (HasNew("LOST_SWAP") <=> battery_pool = <<>>)

C39_PoolOnlySwappable == []PoolOnlySwappable /\ [][StockoutIffPoolEmpty]_vars

\* A recharged battery is back in the pool next to one that never left,
\* after a vehicle was lost on an empty pool.
C39_Witness ==
    /\ Len(battery_pool) >= 2
    /\ \E k \in 1..Len(battery_pool) : batteries[battery_pool[k]].cycle_count >= 1
    /\ \E k \in 1..Len(battery_pool) : batteries[battery_pool[k]].cycle_count = 0
    /\ EventsOfType(events, "LOST_SWAP") # {}

(***************************************************************************)
(* C40: in every reachable state total_swaps <= (number of SWAP_COMPLETE   *)
(* events) = (sum of cycle_count over the station's batteries) <= (number  *)
(* of SWAP_START events), and in the final state of a finished run         *)
(* total_swaps equals the number of SWAP_COMPLETE events.                  *)
(***************************************************************************)
RECURSIVE SumCycleCount(_, _)
SumCycleCount(bats, ids) ==
    IF ids = {} THEN 0
    ELSE LET b == CHOOSE x \in ids : TRUE
         IN bats[b].cycle_count + SumCycleCount(bats, ids \ {b})

SwapCounting ==
    LET starts == Cardinality(EventsOfType(events, "SWAP_START"))
        completes == Cardinality(EventsOfType(events, "SWAP_COMPLETE"))
    IN /\ stats.total_swaps <= completes
       /\ completes = SumCycleCount(batteries, DOMAIN batteries)
       /\ completes <= starts
       /\ phase = "finished" => stats.total_swaps = completes

C40_SwapCounting == SwapCounting

\* The run has finished with a swap under way: more swaps were started
\* than completed, and every completed one is counted.
C40_Witness ==
    /\ phase = "finished"
    /\ stats.total_swaps >= 1
    /\ Cardinality(EventsOfType(events, "SWAP_START")) > stats.total_swaps

====
